---- MODULE Spec2Model ----
(***************************************************************************)
(* Budgie: the local-first persistence layer (src/database/database.ts),   *)
(* the key-value preferences (src/database/settings.ts) and the hooks that *)
(* bind the queries to React state (src/hooks/use-database.ts).            *)
(*                                                                         *)
(* The store is one SQLite file, 'budgie.db', reached through connection   *)
(* handles; the module keeps one handle in the module-level variable db.   *)
(* JavaScript runs one task at a time and a task gives up control only at  *)
(* an await, so every action below is the code between two awaits (or a    *)
(* whole function whose statements are taken as one step).                 *)
(***************************************************************************)
EXTENDS Integers, Sequences, FiniteSets, TLC

\* ------------------------------------------------------------------ bounds
NInitCalls == 2      \* initDatabase calls a run may issue
MaxUuids == 2        \* identifiers generateUUID may hand out in a run
MaxTransactions == 3 \* the same, in the runs on the transactions table alone
MaxNow == 2          \* last value of the clock Date.now() reads
MaxBudgetIds == 3    \* identifiers handed out in the runs on the budgets table alone
MaxQueryRows == 1    \* rows added while the bound queries fetch
MaxFetches == 2      \* fetches of the bound queries in flight at once
MaxCalls == 2        \* mutator and updateTransaction calls in flight at once
MaxSummaryRows == 1  \* rows added while getTransactionSummary is in flight

\* ------------------------------------------------------ values of the code
NullDb == 0                 \* the module variable db holding null
NullNum == 0 - 1            \* SQL NULL / JS null where a number is expected
Null == "null"              \* SQL NULL / JS null where a text is expected
Undefined == "undefined"    \* JS undefined where a text is expected
NoRow == [null |-> TRUE]    \* JS null where a record is expected

\* What a call was given and what it returned, as records: a call without
\* arguments, a call returning nothing, a boolean, a list, a handle.
NoArgs == [none |-> TRUE]
Void == [void |-> TRUE]
Bool(b) == [bool |-> b]
List(s) == [list |-> s]
Handle(h) == [db |-> h]

NoError == "none"
NotInitialized == "Database not initialized. Call initDatabase() first."
TypeError == "TypeError"    \* a method called on null
SqlError == "SqlError"      \* the store rejects a statement

TransactionTypes == {"income", "expense"}
Periods == {"weekly", "monthly", "yearly"}
TableNames == {"transactions", "budgets", "subscriptions", "settings"}

InitCalls == 1..NInitCalls

VARIABLES
  db,             \* the module-level handle: NullDb or a handle 1..opens
  opens,          \* how many times the store has been opened (handles issued)
  closed,         \* the handles closeAsync has been called on
  tables,         \* the tables that exist in the file
  transactions,   \* rows of the transactions table
  budgets,        \* rows of the budgets table
  subscriptions,  \* rows of the subscriptions table
  settings,       \* rows of the settings table
  now,            \* what Date.now() returns
  uuids,          \* how many identifiers generateUUID has handed out
  initPc,         \* each initDatabase call's position
  initRet,        \* the handle each completed initDatabase call returned
  closing,        \* closeDatabase calls suspended at await db.closeAsync()
  clearCall,      \* the handle a suspended clearAllData call captured, or NullDb
  closedSinceInit,\* history: a closeDatabase completed and no initDatabase was called since
  prefs,          \* the key-value preferences store: the keys present and their strings
  allSettings,    \* the getAllSettings call in flight: what it has read so far
  queries,        \* each bound query's React state: [data, isLoading, error]
  fetches,        \* the fetches of the bound queries in flight
  calls,          \* the mutator and updateTransaction calls in flight
  last            \* the most recently completed call: [op, args, err, val]

conn == <<db, opens, closed>>
persisted == <<tables, transactions, budgets, subscriptions, settings>>
lifecycle == <<initPc, initRet, closing, closedSinceInit>>
hooks == <<queries, fetches, calls>>
tasks == <<allSettings, queries, fetches, calls>>
vars == <<db, opens, closed, tables, transactions, budgets, subscriptions,
          settings, now, uuids, initPc, initRet, closing, clearCall,
          closedSinceInit, prefs, allSettings, queries, fetches, calls, last>>

\* --------------------------------------------------------------- helpers

\* A call's completion as the caller sees it.
Completed(op, args, err, val) ==
  last' = [op |-> op, args |-> args, err |-> err, val |-> val]

\* generateUUID: a value no earlier call returned (a collision of two random
\* version-4 UUIDs is not modelled).
generateUUID == uuids + 1

\* What the store answers to a statement issued on handle h that reads or
\* writes the tables tbls.
StatementError(h, tbls) ==
  IF h = NullDb THEN TypeError
  ELSE IF h \in closed THEN SqlError
  ELSE IF ~(tbls \subseteq tables) THEN SqlError
  ELSE NoError

\* getDatabase: the handle, or the error it throws.
getDatabaseBroken == [err |-> NoError, db |-> db]
getDatabase ==
  IF db = NullDb THEN [err |-> NotInitialized, db |-> NullDb]
  ELSE [err |-> NoError, db |-> db]

\* The settings row initDatabase seeds.
SeedSettingsRow ==
  [id |-> "default", dangerZoneAmount |-> 100, currency |-> "USD",
   theme |-> "system", notificationsEnabled |-> 1,
   createdAt |-> now, updatedAt |-> now]

\* ------------------------------------------------------------ initDatabase

\* The statement each position of initDatabase is about to issue.
InitCreates ==
  [createTransactions |-> "transactions", createBudgets |-> "budgets",
   createSubscriptions |-> "subscriptions", createSettings |-> "settings"]
InitNextPc ==
  [createTransactions |-> "createBudgets", createBudgets |-> "createSubscriptions",
   createSubscriptions |-> "createSettings", createSettings |-> "count"]

\* if (db) return db;  otherwise the call suspends at openDatabaseAsync.
InitStart(p) ==
  /\ initPc[p] = "idle"
  /\ closedSinceInit' = FALSE
  /\ IF db # NullDb
       THEN /\ initPc' = [initPc EXCEPT ![p] = "done"]
            /\ initRet' = [initRet EXCEPT ![p] = db]
            /\ Completed("initDatabase", NoArgs, NoError, Handle(db))
       ELSE /\ initPc' = [initPc EXCEPT ![p] = "open"]
            /\ UNCHANGED <<initRet, last>>
  /\ UNCHANGED <<conn, persisted, now, prefs, tasks, uuids, closing, clearCall>>

\* db = await SQLite.openDatabaseAsync('budgie.db'), then PRAGMA journal_mode.
InitOpened(p) ==
  /\ initPc[p] = "open"
  /\ opens' = opens + 1
  /\ db' = opens + 1
  /\ initPc' = [initPc EXCEPT ![p] = "createTransactions"]
  /\ UNCHANGED <<closed, persisted, now, prefs, tasks, uuids, initRet, closing, clearCall,
                 closedSinceInit, last>>


\* CREATE TABLE without IF NOT EXISTS semantics: the table is made anew, empty.
InitCreateEmpties(p) ==
  /\ initPc[p] \in DOMAIN InitCreates
  /\ LET err == StatementError(db, {}) IN
     IF err # NoError
       THEN /\ initPc' = [initPc EXCEPT ![p] = "failed"]
            /\ Completed("initDatabase", NoArgs, err, Void)
            /\ UNCHANGED <<tables, transactions, budgets, subscriptions, settings>>
       ELSE /\ initPc' = [initPc EXCEPT ![p] = InitNextPc[initPc[p]]]
            /\ tables' = tables \cup {InitCreates[initPc[p]]}
            /\ transactions' = IF initPc[p] = "createTransactions" THEN {} ELSE transactions
            /\ budgets' = IF initPc[p] = "createBudgets" THEN {} ELSE budgets
            /\ subscriptions' = IF initPc[p] = "createSubscriptions" THEN {} ELSE subscriptions
            /\ settings' = IF initPc[p] = "createSettings" THEN {} ELSE settings
            /\ UNCHANGED last
  /\ UNCHANGED <<conn, now, prefs, tasks, uuids, initRet, closing, clearCall, closedSinceInit>>

\* One CREATE TABLE IF NOT EXISTS (the transactions table with its three
\* indexes), issued on whatever the module variable db holds at that time.
InitCreate(p) ==
  /\ initPc[p] \in DOMAIN InitCreates
  /\ LET err == StatementError(db, {}) IN
     IF err # NoError
       THEN /\ initPc' = [initPc EXCEPT ![p] = "failed"]
            /\ Completed("initDatabase", NoArgs, err, Void)
            /\ UNCHANGED tables
       ELSE /\ initPc' = [initPc EXCEPT ![p] = InitNextPc[initPc[p]]]
            /\ tables' = tables \cup {InitCreates[initPc[p]]}
            /\ UNCHANGED last
  /\ UNCHANGED <<conn, transactions, budgets, subscriptions, settings, now, prefs, tasks,
                 uuids, initRet, closing, clearCall, closedSinceInit>>

\* SELECT COUNT(*) FROM settings; a count of 0 sends the call to the seeding
\* insert, any other count to return db.
InitCount(p) ==
  /\ initPc[p] = "count"
  /\ LET err == StatementError(db, {"settings"}) IN
     IF err # NoError
       THEN /\ initPc' = [initPc EXCEPT ![p] = "failed"]
            /\ Completed("initDatabase", NoArgs, err, Void)
            /\ UNCHANGED initRet
       ELSE IF Cardinality(settings) = 0
         THEN /\ initPc' = [initPc EXCEPT ![p] = "seed"]
              /\ UNCHANGED <<initRet, last>>
         ELSE /\ initPc' = [initPc EXCEPT ![p] = "done"]
              /\ initRet' = [initRet EXCEPT ![p] = db]
              /\ Completed("initDatabase", NoArgs, NoError, Handle(db))
  /\ UNCHANGED <<conn, persisted, now, prefs, tasks, uuids, closing, clearCall, closedSinceInit>>

\* INSERT INTO settings ... ['default', ...]; id is the primary key, so the
\* insert fails when the row exists. Then return db.
InitSeed(p) ==
  /\ initPc[p] = "seed"
  /\ LET err == IF StatementError(db, {"settings"}) # NoError
                  THEN StatementError(db, {"settings"})
                ELSE IF \E r \in settings : r.id = SeedSettingsRow.id THEN SqlError
                ELSE NoError IN
     IF err # NoError
       THEN /\ initPc' = [initPc EXCEPT ![p] = "failed"]
            /\ Completed("initDatabase", NoArgs, err, Void)
            /\ UNCHANGED <<settings, initRet>>
       ELSE /\ settings' = settings \cup {SeedSettingsRow}
            /\ initPc' = [initPc EXCEPT ![p] = "done"]
            /\ initRet' = [initRet EXCEPT ![p] = db]
            /\ Completed("initDatabase", NoArgs, NoError, Handle(db))
  /\ UNCHANGED <<conn, tables, transactions, budgets, subscriptions, now, prefs, tasks,
                 uuids, closing, clearCall, closedSinceInit>>

initDatabase(p) ==
  \/ InitStart(p)
  \/ InitOpened(p)
  \/ InitCreate(p)
  \/ InitCount(p)
  \/ InitSeed(p)

\* ----------------------------------------------------------- closeDatabase

\* if (db) { await db.closeAsync(); ... }: the handle is closed from the call
\* on; closing a handle a second time is rejected by the store.
CloseStart ==
  /\ IF db = NullDb
       THEN /\ Completed("closeDatabase", NoArgs, NoError, Void)
            /\ closedSinceInit' = TRUE
            /\ UNCHANGED <<closed, closing>>
       ELSE IF db \in closed
         THEN /\ Completed("closeDatabase", NoArgs, SqlError, Void)
              /\ UNCHANGED <<closed, closing, closedSinceInit>>
         ELSE /\ closed' = closed \cup {db}
              /\ closing' = closing + 1
              /\ UNCHANGED <<closedSinceInit, last>>
  /\ UNCHANGED <<db, opens, persisted, now, prefs, tasks, uuids, initPc, initRet, clearCall>>

\* ... db = null; }
CloseDone ==
  /\ closing > 0
  /\ closing' = closing - 1
  /\ db' = NullDb
  /\ closedSinceInit' = TRUE
  /\ Completed("closeDatabase", NoArgs, NoError, Void)
  /\ UNCHANGED <<opens, closed, persisted, now, prefs, tasks, uuids, initPc, initRet, clearCall>>

closeDatabase == CloseStart \/ CloseDone

\* ------------------------------------------------------ storage operations

\* What a storage operation leaves alone whatever it does.
OpFrame ==
  UNCHANGED <<conn, tables, now, prefs, initPc, initRet, closing, clearCall, closedSinceInit>>

\* A storage operation called directly, by no hook.
Direct == UNCHANGED tasks

\* The operation throws err before it has written anything.
Fails(op, args, err) ==
  /\ Completed(op, args, err, Void)
  /\ UNCHANGED <<transactions, budgets, subscriptions, settings, uuids>>

\* JS: { ...current, ...updates }
SpreadKeepsCurrent(current, updates) ==
  [k \in DOMAIN current \cup DOMAIN updates |->
     IF k \in DOMAIN current THEN current[k] ELSE updates[k]]
Spread(current, updates) ==
  [k \in DOMAIN current \cup DOMAIN updates |->
     IF k \in DOMAIN updates THEN updates[k] ELSE current[k]]

\* JS: x ?? null, for a text
OrNull(x) == IF x = Undefined THEN Null ELSE x

\* JS: x ?? d, for a number
Coalesce(x, d) == IF x = NullNum THEN d ELSE x

RECURSIVE SumAmounts(_)
SumAmounts(rows) ==
  IF rows = {} THEN 0
  ELSE LET r == CHOOSE x \in rows : TRUE IN r.amount + SumAmounts(rows \ {r})

\* SQL SUM(amount): NULL over no rows.
SqlSum(rows) == IF rows = {} THEN NullNum ELSE SumAmounts(rows)

\* SQL MIN(timestamp), MAX(timestamp): NULL over no rows.
SqlMinTimestampNewest(rows) ==
  IF rows = {} THEN NullNum ELSE (CHOOSE r \in rows : \A x \in rows : r.timestamp >= x.timestamp).timestamp
SqlMinTimestamp(rows) ==
  IF rows = {} THEN NullNum
  ELSE CHOOSE t \in {r.timestamp : r \in rows} : \A r \in rows : t <= r.timestamp
SqlMaxTimestamp(rows) ==
  IF rows = {} THEN NullNum
  ELSE CHOOSE t \in {r.timestamp : r \in rows} : \A r \in rows : t >= r.timestamp

\* Every listing of the rows of a set, each row once.
Listings(rows) ==
  {s \in [1..Cardinality(rows) -> rows] : \A i, j \in DOMAIN s : i # j => s[i] # s[j]}

\* --- transactions

\* The row the INSERT of addTransaction binds: description ?? null.
TransactionRow(transaction) ==
  [transaction EXCEPT !.description = OrNull(@)]

\* The CHECK and PRIMARY KEY constraints of the transactions table.
TransactionKeyError(row, others) ==
  IF \E r \in others : r.id = row.id THEN SqlError ELSE NoError
TransactionConstraintError(row, others) ==
  IF row.type \notin TransactionTypes THEN SqlError
  ELSE IF \E r \in others : r.id = row.id THEN SqlError
  ELSE NoError

addTransaction(input) ==
  /\ OpFrame
  /\ LET database == getDatabase IN
     IF database.err # NoError THEN Fails("addTransaction", input, database.err)
     ELSE
       LET transaction ==
             [id |-> generateUUID, amount |-> input.amount, type |-> input.type,
              category |-> input.category,
              description |-> IF "description" \in DOMAIN input
                                THEN input.description ELSE Undefined,
              timestamp |-> IF "timestamp" \in DOMAIN input
                              THEN input.timestamp ELSE now,
              createdAt |-> now, updatedAt |-> now]
           err == IF StatementError(database.db, {"transactions"}) # NoError
                    THEN StatementError(database.db, {"transactions"})
                  ELSE TransactionConstraintError(transaction, transactions)
       IN /\ uuids' = uuids + 1
          /\ UNCHANGED <<budgets, subscriptions, settings>>
          /\ IF err # NoError
               THEN /\ Completed("addTransaction", input, err, Void)
                    /\ UNCHANGED transactions
               ELSE /\ transactions' = transactions \cup {TransactionRow(transaction)}
                    /\ Completed("addTransaction", input, NoError, transaction)

\* SELECT * FROM transactions WHERE id = ?, and result ?? null.
SelectAnyTransaction(id) ==
  IF transactions # {} THEN CHOOSE r \in transactions : TRUE ELSE NoRow
SelectTransactionById(id) ==
  IF \E r \in transactions : r.id = id
    THEN CHOOSE r \in transactions : r.id = id
    ELSE NoRow

getTransactionById(id) ==
  /\ OpFrame
  /\ LET database == getDatabase IN
     IF database.err # NoError THEN Fails("getTransactionById", [id |-> id], database.err)
     ELSE IF StatementError(database.db, {"transactions"}) # NoError
       THEN Fails("getTransactionById", [id |-> id], StatementError(database.db, {"transactions"}))
     ELSE /\ Completed("getTransactionById", [id |-> id], NoError, SelectTransactionById(id))
          /\ UNCHANGED <<transactions, budgets, subscriptions, settings, uuids>>

\* getDatabase, getTransactionById(id), null when there is no row, else the
\* UPDATE of the six columns and the merged record; the read and the write are
\* taken as one step.
updateTransaction(id, updates) ==
  /\ OpFrame
  /\ LET database == getDatabase
         args == [id |-> id, updates |-> updates] IN
     IF database.err # NoError THEN Fails("updateTransaction", args, database.err)
     ELSE IF StatementError(database.db, {"transactions"}) # NoError
       THEN Fails("updateTransaction", args, StatementError(database.db, {"transactions"}))
     ELSE
       LET current == SelectTransactionById(id) IN
       IF current = NoRow
         THEN /\ Completed("updateTransaction", args, NoError, NoRow)
              /\ UNCHANGED <<transactions, budgets, subscriptions, settings, uuids>>
         ELSE
           LET updated == [Spread(current, updates) EXCEPT !.updatedAt = now]
               row == [current EXCEPT
                         !.amount = updated.amount, !.type = updated.type,
                         !.category = updated.category,
                         !.description = OrNull(updated.description),
                         !.timestamp = updated.timestamp,
                         !.updatedAt = updated.updatedAt]
               err == TransactionConstraintError(row, transactions \ {current})
           IN /\ UNCHANGED <<budgets, subscriptions, settings, uuids>>
              /\ IF err # NoError
                   THEN /\ Completed("updateTransaction", args, err, Void)
                        /\ UNCHANGED transactions
                   ELSE /\ transactions' = (transactions \ {current}) \cup {row}
                        /\ Completed("updateTransaction", args, NoError, updated)

\* DELETE FROM transactions WHERE id = ?, and result.changes > 0.
\* result.changes > 0
ChangedNever(changes) == changes > 1
Changed(changes) == changes > 0

deleteTransaction(id) ==
  /\ OpFrame
  /\ LET database == getDatabase IN
     IF database.err # NoError THEN Fails("deleteTransaction", [id |-> id], database.err)
     ELSE IF StatementError(database.db, {"transactions"}) # NoError
       THEN Fails("deleteTransaction", [id |-> id], StatementError(database.db, {"transactions"}))
     ELSE /\ transactions' = {r \in transactions : r.id # id}
          /\ Completed("deleteTransaction", [id |-> id], NoError,
                       Bool(Changed(Cardinality({r \in transactions : r.id = id}))))
          /\ UNCHANGED <<budgets, subscriptions, settings, uuids>>

\* JS truthiness of a number and of a text: if (options?.startDate) ...
TruthyNum(x) == x # 0
TruthyText(x) == x # ""

\* The WHERE clause getTransactions builds: a filter is added only when its
\* option is present and truthy.
MatchesOptionsAnyCategory(r, options) ==
  /\ ("type" \in DOMAIN options /\ TruthyText(options.type)) => r.type = options.type
  /\ ("startDate" \in DOMAIN options /\ TruthyNum(options.startDate))
       => r.timestamp >= options.startDate
  /\ ("endDate" \in DOMAIN options /\ TruthyNum(options.endDate))
       => r.timestamp <= options.endDate
MatchesOptions(r, options) ==
  /\ ("type" \in DOMAIN options /\ TruthyText(options.type)) => r.type = options.type
  /\ ("category" \in DOMAIN options /\ TruthyText(options.category))
       => r.category = options.category
  /\ ("startDate" \in DOMAIN options /\ TruthyNum(options.startDate))
       => r.timestamp >= options.startDate
  /\ ("endDate" \in DOMAIN options /\ TruthyNum(options.endDate))
       => r.timestamp <= options.endDate

HasLimit(options) == "limit" \in DOMAIN options /\ TruthyNum(options.limit)
HasOffset(options) == "offset" \in DOMAIN options /\ TruthyNum(options.offset)

\* ORDER BY timestamp DESC: rows of equal timestamp come in any order.
TimestampAscending(s) ==
  \A i, j \in DOMAIN s : i < j => s[i].timestamp <= s[j].timestamp
TimestampDescending(s) ==
  \A i, j \in DOMAIN s : i < j => s[i].timestamp >= s[j].timestamp

\* LIMIT ? OFFSET ? on a listing.
Slice(s, options) ==
  LET skip == IF HasOffset(options) THEN options.offset ELSE 0
      from == IF skip > Len(s) THEN Len(s) + 1 ELSE skip + 1
      to == IF HasLimit(options) /\ from + options.limit - 1 < Len(s)
              THEN from + options.limit - 1 ELSE Len(s)
  IN SubSeq(s, from, to)

\* SQLite has no OFFSET without LIMIT: the statement does not parse.
getTransactions(options) ==
  /\ OpFrame
  /\ LET database == getDatabase IN
     IF database.err # NoError THEN Fails("getTransactions", options, database.err)
     ELSE IF StatementError(database.db, {"transactions"}) # NoError
       THEN Fails("getTransactions", options, StatementError(database.db, {"transactions"}))
     ELSE IF HasOffset(options) /\ ~HasLimit(options)
       THEN Fails("getTransactions", options, SqlError)
     ELSE \E s \in Listings({r \in transactions : MatchesOptions(r, options)}) :
            /\ TimestampDescending(s)
            /\ Completed("getTransactions", options, NoError, List(Slice(s, options)))
            /\ UNCHANGED <<transactions, budgets, subscriptions, settings, uuids>>

\* WHERE timestamp >= ? AND timestamp <= ?
InRangeExclusive(r, startDate, endDate) ==
  r.timestamp > startDate /\ r.timestamp < endDate
InRange(r, startDate, endDate) ==
  r.timestamp >= startDate /\ r.timestamp <= endDate

\* The three SELECTs of getTransactionSummary and the record it builds, on the
\* rows one store state holds.
TransactionSummary(rows, startDate, endDate) ==
  LET incomeResult ==
        SqlSum({r \in rows : r.type = "income" /\ InRange(r, startDate, endDate)})
      expenseResult ==
        SqlSum({r \in rows : r.type = "expense" /\ InRange(r, startDate, endDate)})
      countResult == Cardinality({r \in rows : InRange(r, startDate, endDate)})
      totalIncome == Coalesce(incomeResult, 0)
      totalExpenses == Coalesce(expenseResult, 0)
  IN [totalIncome |-> totalIncome, totalExpenses |-> totalExpenses,
      balance |-> totalIncome - totalExpenses, transactionCount |-> countResult]

getTransactionSummary(startDate, endDate) ==
  /\ OpFrame
  /\ LET database == getDatabase
         args == [startDate |-> startDate, endDate |-> endDate] IN
     IF database.err # NoError THEN Fails("getTransactionSummary", args, database.err)
     ELSE IF StatementError(database.db, {"transactions"}) # NoError
       THEN Fails("getTransactionSummary", args,
                  StatementError(database.db, {"transactions"}))
     ELSE /\ Completed("getTransactionSummary", args, NoError,
                       TransactionSummary(transactions, startDate, endDate))
          /\ UNCHANGED <<transactions, budgets, subscriptions, settings, uuids>>

\* SELECT category, SUM(amount) ... WHERE type = 'expense' ... GROUP BY category
SpendingGroups(rows, startDate, endDate) ==
  LET spent == {r \in rows : r.type = "expense" /\ InRange(r, startDate, endDate)}
  IN {[category |-> c, total |-> SumAmounts({r \in spent : r.category = c})] :
        c \in {r.category : r \in spent}}

\* ORDER BY total DESC: groups of equal total come in any order.
TotalAscending(s) ==
  \A i, j \in DOMAIN s : i < j => s[i].total <= s[j].total
TotalDescending(s) ==
  \A i, j \in DOMAIN s : i < j => s[i].total >= s[j].total

getSpendingByCategory(startDate, endDate) ==
  /\ OpFrame
  /\ LET database == getDatabase
         args == [startDate |-> startDate, endDate |-> endDate] IN
     IF database.err # NoError THEN Fails("getSpendingByCategory", args, database.err)
     ELSE IF StatementError(database.db, {"transactions"}) # NoError
       THEN Fails("getSpendingByCategory", args,
                  StatementError(database.db, {"transactions"}))
     ELSE \E s \in Listings(SpendingGroups(transactions, startDate, endDate)) :
            /\ TotalDescending(s)
            /\ Completed("getSpendingByCategory", args, NoError, List(s))
            /\ UNCHANGED <<transactions, budgets, subscriptions, settings, uuids>>

\* --- budgets

\* INSERT ... ON CONFLICT(category) DO UPDATE SET amount, period, updatedAt:
\* the row of the same category keeps its id and createdAt.
UpsertBudgetReplacesRow(rows, budget) ==
  {r \in rows : r.category # budget.category} \cup {budget}
UpsertBudgetKeepsPeriod(rows, budget) ==
  IF \E r \in rows : r.category = budget.category
    THEN {IF r.category = budget.category
            THEN [r EXCEPT !.amount = budget.amount, !.updatedAt = budget.updatedAt]
            ELSE r : r \in rows}
    ELSE rows \cup {budget}
UpsertBudget(rows, budget) ==
  IF \E r \in rows : r.category = budget.category
    THEN {IF r.category = budget.category
            THEN [r EXCEPT !.amount = budget.amount, !.period = budget.period,
                           !.updatedAt = budget.updatedAt]
            ELSE r : r \in rows}
    ELSE rows \cup {budget}

\* The CHECK and PRIMARY KEY constraints of the budgets table (UNIQUE(category)
\* is the conflict the upsert resolves).
BudgetConstraintError(budget, rows) ==
  IF budget.period \notin Periods THEN SqlError
  ELSE IF \E r \in rows : r.id = budget.id /\ r.category # budget.category THEN SqlError
  ELSE NoError

setBudget(category, amount, period) ==
  /\ OpFrame
  /\ LET database == getDatabase
         args == [category |-> category, amount |-> amount, period |-> period] IN
     IF database.err # NoError THEN Fails("setBudget", args, database.err)
     ELSE
       LET budget == [id |-> generateUUID, category |-> category, amount |-> amount,
                      period |-> period, createdAt |-> now, updatedAt |-> now]
           err == IF StatementError(database.db, {"budgets"}) # NoError
                    THEN StatementError(database.db, {"budgets"})
                  ELSE BudgetConstraintError(budget, budgets)
       IN /\ uuids' = uuids + 1
          /\ UNCHANGED <<transactions, subscriptions, settings>>
          /\ IF err # NoError
               THEN /\ Completed("setBudget", args, err, Void)
                    /\ UNCHANGED budgets
               ELSE /\ budgets' = UpsertBudget(budgets, budget)
                    /\ Completed("setBudget", args, NoError, budget)

\* SELECT * FROM budgets: the rows in whatever order the store yields them.
getBudgets ==
  /\ OpFrame
  /\ LET database == getDatabase IN
     IF database.err # NoError THEN Fails("getBudgets", NoArgs, database.err)
     ELSE IF StatementError(database.db, {"budgets"}) # NoError
       THEN Fails("getBudgets", NoArgs, StatementError(database.db, {"budgets"}))
     ELSE \E s \in Listings(budgets) :
            /\ Completed("getBudgets", NoArgs, NoError, List(s))
            /\ UNCHANGED <<transactions, budgets, subscriptions, settings, uuids>>

\* DELETE FROM budgets WHERE category = ?, and result.changes > 0.
deleteBudget(category) ==
  /\ OpFrame
  /\ LET database == getDatabase IN
     IF database.err # NoError THEN Fails("deleteBudget", [category |-> category], database.err)
     ELSE IF StatementError(database.db, {"budgets"}) # NoError
       THEN Fails("deleteBudget", [category |-> category], StatementError(database.db, {"budgets"}))
     ELSE /\ budgets' = {r \in budgets : r.category # category}
          /\ Completed("deleteBudget", [category |-> category], NoError,
                       Bool(Changed(Cardinality({r \in budgets : r.category = category}))))
          /\ UNCHANGED <<transactions, subscriptions, settings, uuids>>

\* --- subscriptions

\* The row the INSERT of addSubscription binds: notificationEnabled ? 1 : 0.
SubscriptionRow(subscription) ==
  [subscription EXCEPT !.notificationEnabled = IF @ THEN 1 ELSE 0]

\* What getSubscriptions makes of a row: notificationEnabled === 1.
SubscriptionRecord(row) ==
  [row EXCEPT !.notificationEnabled = (@ = 1)]

SubscriptionConstraintError(row, rows) ==
  IF row.billingPeriod \notin Periods THEN SqlError
  ELSE IF \E r \in rows : r.id = row.id THEN SqlError
  ELSE NoError

addSubscription(input) ==
  /\ OpFrame
  /\ LET database == getDatabase IN
     IF database.err # NoError THEN Fails("addSubscription", input, database.err)
     ELSE
       LET subscription ==
             Spread(Spread([id |-> generateUUID], input),
                    [createdAt |-> now, updatedAt |-> now])
           err == IF StatementError(database.db, {"subscriptions"}) # NoError
                    THEN StatementError(database.db, {"subscriptions"})
                  ELSE SubscriptionConstraintError(subscription, subscriptions)
       IN /\ uuids' = uuids + 1
          /\ UNCHANGED <<transactions, budgets, settings>>
          /\ IF err # NoError
               THEN /\ Completed("addSubscription", input, err, Void)
                    /\ UNCHANGED subscriptions
               ELSE /\ subscriptions' = subscriptions \cup {SubscriptionRow(subscription)}
                    /\ Completed("addSubscription", input, NoError, subscription)

\* ORDER BY nextBillingDate ASC: rows of equal date come in any order.
BillingDateAscending(s) ==
  \A i, j \in DOMAIN s : i < j => s[i].nextBillingDate <= s[j].nextBillingDate

getSubscriptions ==
  /\ OpFrame
  /\ LET database == getDatabase IN
     IF database.err # NoError THEN Fails("getSubscriptions", NoArgs, database.err)
     ELSE IF StatementError(database.db, {"subscriptions"}) # NoError
       THEN Fails("getSubscriptions", NoArgs, StatementError(database.db, {"subscriptions"}))
     ELSE \E s \in Listings(subscriptions) :
            /\ BillingDateAscending(s)
            /\ Completed("getSubscriptions", NoArgs, NoError,
                         List([i \in DOMAIN s |-> SubscriptionRecord(s[i])]))
            /\ UNCHANGED <<transactions, budgets, subscriptions, settings, uuids>>

\* DELETE FROM subscriptions WHERE id = ?, and result.changes > 0.
deleteSubscription(id) ==
  /\ OpFrame
  /\ LET database == getDatabase IN
     IF database.err # NoError THEN Fails("deleteSubscription", [id |-> id], database.err)
     ELSE IF StatementError(database.db, {"subscriptions"}) # NoError
       THEN Fails("deleteSubscription", [id |-> id], StatementError(database.db, {"subscriptions"}))
     ELSE /\ subscriptions' = {r \in subscriptions : r.id # id}
          /\ Completed("deleteSubscription", [id |-> id], NoError,
                       Bool(Changed(Cardinality({r \in subscriptions : r.id = id}))))
          /\ UNCHANGED <<transactions, budgets, settings, uuids>>

\* --- settings

\* SELECT * FROM settings WHERE id = 'default'
SelectSettings ==
  IF \E r \in settings : r.id = "default"
    THEN CHOOSE r \in settings : r.id = "default"
    ELSE NoRow

\* The record getSettings returns: the row with notificationsEnabled === 1, or
\* the fallback when there is no row.
SettingsRecord ==
  IF SelectSettings = NoRow
    THEN [id |-> "default", dangerZoneAmount |-> 0, currency |-> "USD",
          theme |-> "system", notificationsEnabled |-> TRUE,
          createdAt |-> now, updatedAt |-> now]
    ELSE [SelectSettings EXCEPT !.notificationsEnabled = (@ = 1)]

getSettings ==
  /\ OpFrame
  /\ LET database == getDatabase IN
     IF database.err # NoError THEN Fails("getSettings", NoArgs, database.err)
     ELSE IF StatementError(database.db, {"settings"}) # NoError
       THEN Fails("getSettings", NoArgs, StatementError(database.db, {"settings"}))
     ELSE /\ Completed("getSettings", NoArgs, NoError, SettingsRecord)
          /\ UNCHANGED <<transactions, budgets, subscriptions, settings, uuids>>

\* getDatabase, getSettings, then UPDATE settings SET ... WHERE id = 'default'
\* and the merged record.
updateSettings(updates) ==
  /\ OpFrame
  /\ LET database == getDatabase IN
     IF database.err # NoError THEN Fails("updateSettings", updates, database.err)
     ELSE IF StatementError(database.db, {"settings"}) # NoError
       THEN Fails("updateSettings", updates, StatementError(database.db, {"settings"}))
     ELSE
       LET current == SettingsRecord
           updated == [Spread(current, updates) EXCEPT !.updatedAt = now]
       IN /\ settings' =
               {IF r.id = "default"
                  THEN [r EXCEPT
                          !.dangerZoneAmount = updated.dangerZoneAmount,
                          !.currency = updated.currency,
                          !.theme = updated.theme,
                          !.notificationsEnabled =
                             IF updated.notificationsEnabled THEN 1 ELSE 0,
                          !.updatedAt = updated.updatedAt]
                  ELSE r : r \in settings}
          /\ Completed("updateSettings", updates, NoError, updated)
          /\ UNCHANGED <<transactions, budgets, subscriptions, uuids>>

\* --- utilities

\* clearAllData up to its first await: getDatabase, DELETE FROM transactions.
ClearTransactions ==
  /\ clearCall = NullDb
  /\ LET database == getDatabase IN
     IF database.err # NoError
       THEN Fails("clearAllData", NoArgs, database.err) /\ UNCHANGED clearCall
     ELSE IF StatementError(database.db, {"transactions"}) # NoError
       THEN /\ Fails("clearAllData", NoArgs, StatementError(database.db, {"transactions"}))
            /\ UNCHANGED clearCall
     ELSE /\ transactions' = {}
          /\ clearCall' = database.db
          /\ UNCHANGED <<budgets, subscriptions, settings, uuids, last>>
  /\ UNCHANGED <<conn, tables, now, prefs, tasks, initPc, initRet, closing, closedSinceInit>>

\* clearAllData from its first await on: DELETE FROM budgets, on the handle the
\* call captured.
ClearBudgetsAndSubscriptions ==
  /\ clearCall # NullDb
  /\ clearCall' = NullDb
  /\ IF StatementError(clearCall, {"budgets"}) # NoError
       THEN Fails("clearAllData", NoArgs, StatementError(clearCall, {"budgets"}))
       ELSE /\ budgets' = {}
            /\ subscriptions' = {}
            /\ Completed("clearAllData", NoArgs, NoError, Void)
            /\ UNCHANGED <<transactions, settings, uuids>>
  /\ UNCHANGED <<conn, tables, now, prefs, tasks, initPc, initRet, closing, closedSinceInit>>
ClearBudgets ==
  /\ clearCall # NullDb
  /\ clearCall' = NullDb
  /\ IF StatementError(clearCall, {"budgets"}) # NoError
       THEN Fails("clearAllData", NoArgs, StatementError(clearCall, {"budgets"}))
       ELSE /\ budgets' = {}
            /\ Completed("clearAllData", NoArgs, NoError, Void)
            /\ UNCHANGED <<transactions, subscriptions, settings, uuids>>
  /\ UNCHANGED <<conn, tables, now, prefs, tasks, initPc, initRet, closing, closedSinceInit>>

clearAllData == ClearTransactions \/ ClearBudgets

getDatabaseStats ==
  /\ OpFrame
  /\ LET database == getDatabase IN
     IF database.err # NoError THEN Fails("getDatabaseStats", NoArgs, database.err)
     ELSE IF StatementError(database.db, {"transactions", "budgets"}) # NoError
       THEN Fails("getDatabaseStats", NoArgs,
                  StatementError(database.db, {"transactions", "budgets"}))
     ELSE /\ Completed("getDatabaseStats", NoArgs, NoError,
                       [transactionCount |-> Cardinality(transactions),
                        budgetCount |-> Cardinality(budgets),
                        oldestTransaction |-> SqlMinTimestamp(transactions),
                        newestTransaction |-> SqlMaxTimestamp(transactions)])
          /\ UNCHANGED <<transactions, budgets, subscriptions, settings, uuids>>

\* ------------------------------------------------------ preferences store

\* The keys of the preferences store.
KEYS ==
  [CURRENCY |-> "settings.currency", THEME |-> "settings.theme",
   NOTIFICATIONS_ENABLED |-> "settings.notificationsEnabled",
   DAILY_REMINDER_TIME |-> "settings.dailyReminderTime",
   BIOMETRIC_ENABLED |-> "settings.biometricEnabled",
   ONBOARDING_COMPLETED |-> "settings.onboardingCompleted",
   LAST_SYNC_TIME |-> "settings.lastSyncTime",
   DEFAULT_TRANSACTION_TYPE |-> "settings.defaultTransactionType",
   WEEK_START_DAY |-> "settings.weekStartDay"]

\* The preferences store with no key written.
NoItems == [k \in {} |-> Null]

\* AsyncStorage.setItem(key, value) and AsyncStorage.removeItem(key).
SetItem(store, key, value) ==
  [k \in DOMAIN store \cup {key} |-> IF k = key THEN value ELSE store[k]]
RemoveItem(store, key) ==
  [k \in DOMAIN store \ {key} |-> store[k]]

\* AsyncStorage.getItem(key): the string stored under the key, or null.
getItem(store, key) == IF key \in DOMAIN store THEN store[key] ELSE Null

\* AsyncStorage.multiRemove(keys)
multiRemove(store, keys) == [k \in DOMAIN store \ keys |-> store[k]]

DEFAULTS ==
  [currency |-> "USD", theme |-> "system", notificationsEnabled |-> TRUE,
   dailyReminderTime |-> Null, biometricEnabled |-> FALSE,
   onboardingCompleted |-> FALSE, lastSyncTime |-> NullNum,
   defaultTransactionType |-> "expense", weekStartDay |-> 1]

\* The numbers whose decimal strings a run stores: the WeekStartDay values.
Numerals == 0..6

\* JS: String(enabled) of a boolean, String(n) and Number(s) of a number.
BooleanString(enabled) == IF enabled THEN "true" ELSE "false"
NumberString(n) == ToString(n)
Number(value) == CHOOSE n \in Numerals : ToString(n) = value

\* What each getter makes of the string getItem hands it.
\* (value as T) ?? DEFAULTS.x
TextValueDefault(value, default) == default
TextValue(value, default) == IF value # Null THEN value ELSE default
\* value !== null ? value === 'true' : DEFAULTS.x
BooleanValue(value, default) == IF value # Null THEN value = "true" ELSE default
\* value !== null ? Number(value) : DEFAULTS.x
NumberValue(value, default) == IF value # Null THEN Number(value) ELSE default

\* What the nine getters return on a store, by field of AppSettings.
Getters(store) ==
  [currency |-> TextValue(getItem(store, KEYS.CURRENCY), DEFAULTS.currency),
   theme |-> TextValue(getItem(store, KEYS.THEME), DEFAULTS.theme),
   notificationsEnabled |->
     BooleanValue(getItem(store, KEYS.NOTIFICATIONS_ENABLED), DEFAULTS.notificationsEnabled),
   dailyReminderTime |->
     TextValue(getItem(store, KEYS.DAILY_REMINDER_TIME), DEFAULTS.dailyReminderTime),
   biometricEnabled |->
     BooleanValue(getItem(store, KEYS.BIOMETRIC_ENABLED), DEFAULTS.biometricEnabled),
   onboardingCompleted |->
     BooleanValue(getItem(store, KEYS.ONBOARDING_COMPLETED), DEFAULTS.onboardingCompleted),
   lastSyncTime |-> NumberValue(getItem(store, KEYS.LAST_SYNC_TIME), DEFAULTS.lastSyncTime),
   defaultTransactionType |->
     TextValue(getItem(store, KEYS.DEFAULT_TRANSACTION_TYPE), DEFAULTS.defaultTransactionType),
   weekStartDay |-> NumberValue(getItem(store, KEYS.WEEK_START_DAY), DEFAULTS.weekStartDay)]

Fields == DOMAIN DEFAULTS

\* No getAllSettings call in flight.
NoBulkRead == [pc |-> "idle", got |-> NoItems, views |-> {}, written |-> {}]

\* History of a getAllSettings call, kept until the next call: what the nine
\* getters would have returned at each instant between the call and its
\* return, and the keys written in between.
Observed(call, store, keys) ==
  IF call.pc = "idle" THEN call
  ELSE [call EXCEPT !.views = @ \cup {Getters(store)}, !.written = @ \cup keys]

\* What a preference call leaves alone: the whole relational store.
PrefFrame ==
  UNCHANGED <<conn, persisted, now, uuids, lifecycle, clearCall, hooks>>

\* A setter: one write of the store.
PrefWrite(op, args, store, key) ==
  /\ PrefFrame
  /\ prefs' = store
  /\ allSettings' = Observed(allSettings, store, {key})
  /\ Completed(op, args, NoError, Void)

\* A getter: one read of the store.
PrefRead(op, field) ==
  /\ PrefFrame
  /\ UNCHANGED <<prefs, allSettings>>
  /\ Completed(op, NoArgs, NoError, [value |-> Getters(prefs)[field]])

getCurrency == PrefRead("getCurrency", "currency")
setCurrency(currency) ==
  PrefWrite("setCurrency", [currency |-> currency],
            SetItem(prefs, KEYS.CURRENCY, currency), KEYS.CURRENCY)

getTheme == PrefRead("getTheme", "theme")
setTheme(theme) ==
  PrefWrite("setTheme", [theme |-> theme], SetItem(prefs, KEYS.THEME, theme), KEYS.THEME)

getNotificationsEnabled == PrefRead("getNotificationsEnabled", "notificationsEnabled")
setNotificationsEnabled(enabled) ==
  PrefWrite("setNotificationsEnabled", [enabled |-> enabled],
            SetItem(prefs, KEYS.NOTIFICATIONS_ENABLED, BooleanString(enabled)),
            KEYS.NOTIFICATIONS_ENABLED)

getDailyReminderTime == PrefRead("getDailyReminderTime", "dailyReminderTime")
\* if (time === null) removeItem else setItem
setDailyReminderTime(time) ==
  PrefWrite("setDailyReminderTime", [time |-> time],
            IF time = Null THEN RemoveItem(prefs, KEYS.DAILY_REMINDER_TIME)
            ELSE SetItem(prefs, KEYS.DAILY_REMINDER_TIME, time),
            KEYS.DAILY_REMINDER_TIME)

getBiometricEnabled == PrefRead("getBiometricEnabled", "biometricEnabled")
setBiometricEnabled(enabled) ==
  PrefWrite("setBiometricEnabled", [enabled |-> enabled],
            SetItem(prefs, KEYS.BIOMETRIC_ENABLED, BooleanString(enabled)),
            KEYS.BIOMETRIC_ENABLED)

getOnboardingCompleted == PrefRead("getOnboardingCompleted", "onboardingCompleted")
setOnboardingCompleted(completed) ==
  PrefWrite("setOnboardingCompleted", [completed |-> completed],
            SetItem(prefs, KEYS.ONBOARDING_COMPLETED, BooleanString(completed)),
            KEYS.ONBOARDING_COMPLETED)

getLastSyncTime == PrefRead("getLastSyncTime", "lastSyncTime")
\* if (time === null) removeItem else setItem(String(time))
setLastSyncTime(time) ==
  PrefWrite("setLastSyncTime", [time |-> time],
            IF time = NullNum THEN RemoveItem(prefs, KEYS.LAST_SYNC_TIME)
            ELSE SetItem(prefs, KEYS.LAST_SYNC_TIME, NumberString(time)),
            KEYS.LAST_SYNC_TIME)

getDefaultTransactionType == PrefRead("getDefaultTransactionType", "defaultTransactionType")
setDefaultTransactionType(type) ==
  PrefWrite("setDefaultTransactionType", [type |-> type],
            SetItem(prefs, KEYS.DEFAULT_TRANSACTION_TYPE, type),
            KEYS.DEFAULT_TRANSACTION_TYPE)

getWeekStartDay == PrefRead("getWeekStartDay", "weekStartDay")
setWeekStartDay(day) ==
  PrefWrite("setWeekStartDay", [day |-> day],
            SetItem(prefs, KEYS.WEEK_START_DAY, NumberString(day)), KEYS.WEEK_START_DAY)

\* AsyncStorage.multiRemove(Object.values(KEYS))
resetAllSettings ==
  LET keys == {KEYS[k] : k \in DOMAIN KEYS} IN
  /\ PrefFrame
  /\ prefs' = multiRemove(prefs, keys)
  /\ allSettings' = Observed(allSettings, multiRemove(prefs, keys), keys)
  /\ Completed("resetAllSettings", NoArgs, NoError, Void)

\* getAllSettings: Promise.all over the nine getters. The nine reads are
\* issued together and each takes effect on its own, at some instant before
\* the call returns; the store promises no order among them.
AllSettingsStart ==
  /\ allSettings.pc = "idle"
  /\ allSettings' = [pc |-> "reading", got |-> NoItems,
                     views |-> {Getters(prefs)}, written |-> {}]
  /\ PrefFrame
  /\ UNCHANGED <<prefs, last>>

\* One getter's read takes effect.
ReadIntoDefault(got, field, store) ==
  [f \in DOMAIN got \cup {field} |-> IF f = field THEN DEFAULTS[f] ELSE got[f]]
ReadInto(got, field, store) ==
  [f \in DOMAIN got \cup {field} |-> IF f = field THEN Getters(store)[f] ELSE got[f]]

AllSettingsRead(field) ==
  /\ allSettings.pc = "reading"
  /\ field \notin DOMAIN allSettings.got
  /\ allSettings' = [allSettings EXCEPT !.got = ReadInto(@, field, prefs)]
  /\ PrefFrame
  /\ UNCHANGED <<prefs, last>>

\* All nine promises have resolved: the call returns the object of the nine.
AllSettingsReturn ==
  /\ allSettings.pc = "reading"
  /\ DOMAIN allSettings.got = Fields
  /\ allSettings' = [allSettings EXCEPT !.pc = "idle"]
  /\ Completed("getAllSettings", NoArgs, NoError, allSettings.got)
  /\ PrefFrame
  /\ UNCHANGED prefs

getAllSettings ==
  \/ AllSettingsStart
  \/ \E field \in Fields : AllSettingsRead(field)
  \/ AllSettingsReturn

\* ------------------------------------------------------- the bound queries

\* The hooks that bind a query to React state.
QueryNames ==
  {"useTransactions", "useTransactionSummary", "useSpendingByCategory", "useDatabaseStats"}

\* useState's initial values: [] or null, isLoading true, error null.
InitialData(q) ==
  IF q \in {"useTransactions", "useSpendingByCategory"} THEN List(<<>>) ELSE NoRow
Mounted ==
  [q \in QueryNames |-> [data |-> InitialData(q), isLoading |-> TRUE, error |-> NoError]]

\* getTransactions() and getTransactions({}).
NoOptions == [k \in {} |-> 0]

FetchIds == 1..MaxFetches
NoFetch == [pc |-> "idle", query |-> "none", err |-> NoError, val |-> Void]
NoFetches == [f \in FetchIds |-> NoFetch]

\* The slot a new fetch takes.
FreeFetch == CHOOSE f \in FetchIds :
               fetches[f].pc = "idle" /\ \A g \in FetchIds : fetches[g].pc = "idle" => f <= g

\* What a step of a hook leaves alone besides the store.
HookFrame ==
  UNCHANGED <<conn, persisted, now, uuids, lifecycle, clearCall, prefs, allSettings>>

\* fetchTransactions / fetchSummary / fetchSpending / fetchStats up to the
\* await: setIsLoading(true), and the storage function runs to its own first
\* await, where getDatabase() has thrown or the statement is issued.
FetchStart(q) ==
  /\ \E f \in FetchIds : fetches[f].pc = "idle"
  /\ queries' = [queries EXCEPT ![q].isLoading = TRUE]
  /\ fetches' = [fetches EXCEPT ![FreeFetch] =
                   IF getDatabase.err # NoError
                     THEN [pc |-> "settled", query |-> q, err |-> getDatabase.err, val |-> Void]
                     ELSE [pc |-> "issued", query |-> q, err |-> NoError, val |-> Void]]
  /\ HookFrame
  /\ UNCHANGED <<calls, last>>

\* The storage function each hook awaits, with the arguments the hook was
\* rendered with.
StorageRead(q) ==
  CASE q = "useTransactions" -> getTransactions(NoOptions)
    [] q = "useTransactionSummary" -> getTransactionSummary(0, MaxNow)
    [] q = "useSpendingByCategory" -> getSpendingByCategory(0, MaxNow)
    [] q = "useDatabaseStats" -> getDatabaseStats

\* The statement of a fetch takes effect: it reads the store as it is now.
\* (The connection is not closed while a fetch is in flight, so the handle
\* the call captured is the handle db holds.)
FetchRead(f) ==
  /\ fetches[f].pc = "issued"
  /\ StorageRead(fetches[f].query)
  /\ fetches' = [fetches EXCEPT ![f] =
                   [pc |-> "settled", query |-> fetches[f].query,
                    err |-> last'.err, val |-> last'.val]]
  /\ UNCHANGED <<allSettings, queries, calls>>

\* The hook's state after the await: setData(data), setError(null) or
\* setError(err), and setIsLoading(false) in the finally block.
\* useDatabaseStats has no error state: its catch block only logs.
SettledKeepsLoading(state, q, fetch) ==
  IF fetch.err = NoError
    THEN [data |-> fetch.val, isLoading |-> state.isLoading, error |-> NoError]
    ELSE [data |-> state.data, isLoading |-> state.isLoading, error |-> fetch.err]
SettledFirstWins(state, q, fetch) ==
  IF fetch.err = NoError /\ state.isLoading
    THEN [data |-> fetch.val, isLoading |-> FALSE, error |-> NoError]
    ELSE [data |-> state.data, isLoading |-> FALSE, error |-> state.error]
SettledKeepsCache(state, q, fetch) ==
  IF fetch.err = NoError
    THEN [data |-> state.data, isLoading |-> FALSE, error |-> NoError]
    ELSE [data |-> state.data, isLoading |-> FALSE, error |-> fetch.err]
Settled(state, q, fetch) ==
  IF fetch.err = NoError
    THEN [data |-> fetch.val, isLoading |-> FALSE,
          error |-> IF q = "useDatabaseStats" THEN state.error ELSE NoError]
    ELSE [data |-> state.data, isLoading |-> FALSE,
          error |-> IF q = "useDatabaseStats" THEN state.error ELSE fetch.err]

\* The completion of a fetch is delivered to the hook. Completions of
\* separate storage calls are delivered in no promised order.
FetchDeliver(f) ==
  /\ fetches[f].pc = "settled"
  /\ queries' = [queries EXCEPT ![fetches[f].query] = Settled(@, fetches[f].query, fetches[f])]
  /\ fetches' = [fetches EXCEPT ![f] = NoFetch]
  /\ HookFrame
  /\ UNCHANGED <<calls, last>>

\* refresh is the fetch callback itself.
refresh(q) == FetchStart(q)

\* --- the mutators of useTransactions, and updateTransaction step by step

CallIds == 1..MaxCalls
NoCall ==
  [pc |-> "idle", op |-> "none", hook |-> FALSE, args |-> NoArgs, db |-> NullDb,
   now |-> 0, current |-> NoRow, err |-> NoError, val |-> Void, seen |-> {}]
NoCalls == [c \in CallIds |-> NoCall]

FreeCall == CHOOSE c \in CallIds :
              calls[c].pc = "idle" /\ \A d \in CallIds : calls[d].pc = "idle" => c <= d

\* add(input): await addTransaction(input). The call and its INSERT are taken
\* as one step; the hook's continuation is a later one.
add(input) ==
  /\ \E c \in CallIds : calls[c].pc = "idle"
  /\ addTransaction(input)
  /\ calls' = [calls EXCEPT ![FreeCall] =
                 [NoCall EXCEPT !.pc = "settled", !.op = "add", !.hook = TRUE,
                                !.args = [input |-> input],
                                !.err = last'.err, !.val = last'.val]]
  /\ UNCHANGED <<allSettings, queries, fetches>>

\* remove(id): await deleteTransaction(id), likewise.
remove(id) ==
  /\ \E c \in CallIds : calls[c].pc = "idle"
  /\ deleteTransaction(id)
  /\ calls' = [calls EXCEPT ![FreeCall] =
                 [NoCall EXCEPT !.pc = "settled", !.op = "remove", !.hook = TRUE,
                                !.args = [id |-> id],
                                !.err = last'.err, !.val = last'.val]]
  /\ UNCHANGED <<allSettings, queries, fetches>>

\* updateTransaction up to its first await: getDatabase(), Date.now(), and
\* getTransactionById(id) up to its own await (its getDatabase() returns the
\* same handle). viaHook tells a call made by the hook's update from a call
\* made directly.
UpdateIssued(id, updates, viaHook) ==
  /\ \E c \in CallIds : calls[c].pc = "idle"
  /\ LET database == getDatabase
         call == [NoCall EXCEPT !.op = "update", !.hook = viaHook,
                                !.args = [id |-> id, updates |-> updates]] IN
     calls' = [calls EXCEPT ![FreeCall] =
                 IF database.err # NoError
                   THEN [call EXCEPT !.pc = "settled", !.err = database.err]
                   ELSE [call EXCEPT !.pc = "read", !.db = database.db, !.now = now]]
  /\ HookFrame
  /\ UNCHANGED <<queries, fetches, last>>

\* The SELECT of getTransactionById takes effect; if (!current) return null.
UpdateRead(c) ==
  /\ calls[c].pc = "read"
  /\ LET err == StatementError(calls[c].db, {"transactions"})
         current == SelectTransactionById(calls[c].args.id) IN
     calls' = [calls EXCEPT ![c] =
                 IF err # NoError THEN [@ EXCEPT !.pc = "settled", !.err = err]
                 ELSE IF current = NoRow THEN [@ EXCEPT !.pc = "settled", !.val = NoRow]
                 ELSE [@ EXCEPT !.pc = "write", !.current = current]]
  /\ HookFrame
  /\ UNCHANGED <<queries, fetches, last>>

\* { ...current, ...updates, updatedAt: now }
MergedKeepsCurrent(current, updates, at) == [current EXCEPT !.updatedAt = at]
Merged(current, updates, at) == [Spread(current, updates) EXCEPT !.updatedAt = at]

\* UPDATE transactions SET the six columns WHERE id = ?: the row that holds
\* the id now gets the six values of the merged record.
UpdateRows(rows, id, updated) ==
  {IF r.id = id
     THEN [r EXCEPT !.amount = updated.amount, !.type = updated.type,
                    !.category = updated.category,
                    !.description = OrNull(updated.description),
                    !.timestamp = updated.timestamp,
                    !.updatedAt = updated.updatedAt]
     ELSE r : r \in rows}

\* The UPDATE takes effect, on the handle the call captured.
UpdateWrite(c) ==
  /\ calls[c].pc = "write"
  /\ LET call == calls[c]
         updated == Merged(call.current, call.args.updates, call.now)
         err == IF StatementError(call.db, {"transactions"}) # NoError
                  THEN StatementError(call.db, {"transactions"})
                ELSE IF (\E r \in transactions : r.id = call.args.id)
                        /\ updated.type \notin TransactionTypes THEN SqlError
                ELSE NoError IN
     IF err # NoError
       THEN /\ calls' = [calls EXCEPT ![c] = [@ EXCEPT !.pc = "settled", !.err = err]]
            /\ UNCHANGED transactions
       ELSE /\ calls' = [calls EXCEPT ![c] = [@ EXCEPT !.pc = "settled", !.val = updated]]
            /\ transactions' = UpdateRows(transactions, call.args.id, updated)
  /\ UNCHANGED <<conn, tables, budgets, subscriptions, settings, now, uuids, lifecycle,
                 clearCall, prefs, allSettings, queries, fetches, last>>

\* A direct updateTransaction call returns to its caller, who holds what it
\* was given and what it returned from then on.
UpdateReturn(c) ==
  /\ calls[c].pc = "settled"
  /\ ~calls[c].hook
  /\ Completed("updateTransaction", calls[c].args, calls[c].err, calls[c].val)
  /\ calls' = [calls EXCEPT ![c].pc = "returned"]
  /\ HookFrame
  /\ UNCHANGED <<queries, fetches>>

\* update(id, updates): await updateTransaction(id, updates)
update(id, updates) == UpdateIssued(id, updates, TRUE)

\* The functional updates the mutators hand to setTransactions:
\*   add:     (prev) => [newTransaction, ...prev]
\*   update:  (prev) => prev.map((t) => (t.id === id ? updated : t)), if (updated)
\*   remove:  (prev) => prev.filter((t) => t.id !== id), if (success)
PatchAppends(call, prev) ==
  IF call.op = "add" THEN prev \o <<call.val>>
  ELSE IF call.op = "update" THEN
    IF call.val = NoRow THEN prev
    ELSE [i \in DOMAIN prev |-> IF prev[i].id = call.args.id THEN call.val ELSE prev[i]]
  ELSE IF call.val = Bool(TRUE) THEN SelectSeq(prev, LAMBDA t : t.id # call.args.id)
  ELSE prev
Patch(call, prev) ==
  IF call.op = "add" THEN <<call.val>> \o prev
  ELSE IF call.op = "update" THEN
    IF call.val = NoRow THEN prev
    ELSE [i \in DOMAIN prev |-> IF prev[i].id = call.args.id THEN call.val ELSE prev[i]]
  ELSE IF call.val = Bool(TRUE) THEN SelectSeq(prev, LAMBDA t : t.id # call.args.id)
  ELSE prev

\* What the catch block of a mutator leaves in the hook's error state:
\* console.error(...); throw err.
Caught(error, err) == error

\* The hook's continuation after the await: the cache is patched and the
\* value returned, or the error is logged and rethrown.
MutatorReturn(c) ==
  /\ calls[c].pc = "settled"
  /\ calls[c].hook
  /\ LET call == calls[c]
         state == queries["useTransactions"] IN
     queries' = [queries EXCEPT !["useTransactions"] =
                   IF call.err # NoError
                     THEN [state EXCEPT !.error = Caught(state.error, call.err)]
                     ELSE [state EXCEPT !.data = List(Patch(call, state.data.list))]]
  /\ Completed(calls[c].op, calls[c].args, calls[c].err, calls[c].val)
  /\ calls' = [calls EXCEPT ![c] = NoCall]
  /\ HookFrame
  /\ UNCHANGED fetches


\* --- getTransactionSummary step by step: three awaited SELECTs

\* getTransactionSummary up to its first await: getDatabase(), and the first
\* SELECT issued on that handle. seen collects the summary of every state the
\* store is in from here to the return.
SummaryIssued(startDate, endDate) ==
  /\ \E c \in CallIds : calls[c].pc = "idle"
  /\ LET database == getDatabase
         call == [NoCall EXCEPT !.op = "getTransactionSummary",
                                !.args = [startDate |-> startDate, endDate |-> endDate]] IN
     calls' = [calls EXCEPT ![FreeCall] =
                 IF database.err # NoError
                   THEN [call EXCEPT !.pc = "settled", !.err = database.err]
                   ELSE [call EXCEPT
                           !.pc = "income", !.db = database.db,
                           !.seen = {TransactionSummary(transactions, startDate, endDate)}]]
  /\ HookFrame
  /\ UNCHANGED <<queries, fetches, last>>

\* One of the three SELECTs takes effect on the rows the store holds now.
SummarySelect(call, rows) ==
  LET inRange == {r \in rows : InRange(r, call.args.startDate, call.args.endDate)} IN
  IF call.pc = "income" THEN
    [call EXCEPT !.pc = "expense",
       !.current = [incomeResult |-> SqlSum({r \in inRange : r.type = "income"})]]
  ELSE IF call.pc = "expense" THEN
    [call EXCEPT !.pc = "count",
       !.current = [incomeResult |-> call.current.incomeResult,
                    expenseResult |-> SqlSum({r \in inRange : r.type = "expense"})]]
  ELSE
    LET totalIncome == Coalesce(call.current.incomeResult, 0)
        totalExpenses == Coalesce(call.current.expenseResult, 0) IN
    [call EXCEPT !.pc = "settled",
       !.val = [totalIncome |-> totalIncome, totalExpenses |-> totalExpenses,
                balance |-> totalIncome - totalExpenses,
                transactionCount |-> Cardinality(inRange)]]

SummaryRead(c) ==
  /\ calls[c].pc \in {"income", "expense", "count"}
  /\ LET err == StatementError(calls[c].db, {"transactions"}) IN
     calls' = [calls EXCEPT ![c] =
                 IF err # NoError THEN [@ EXCEPT !.pc = "settled", !.err = err]
                 ELSE SummarySelect(@, transactions)]
  /\ HookFrame
  /\ UNCHANGED <<queries, fetches, last>>

\* The call returns to its caller.
SummaryReturn(c) ==
  /\ calls[c].pc = "settled"
  /\ calls[c].op = "getTransactionSummary"
  /\ Completed("getTransactionSummary", calls[c].args, calls[c].err, calls[c].val)
  /\ calls' = [calls EXCEPT ![c].pc = "returned"]
  /\ HookFrame
  /\ UNCHANGED <<queries, fetches>>

\* A storage call made while summary calls are in flight: each of them has
\* one more store state between its call and its return.
WhileSummarizing ==
  /\ calls' = [c \in CallIds |->
                 IF calls[c].pc \in {"income", "expense", "count"}
                   THEN [calls[c] EXCEPT !.seen =
                           @ \cup {TransactionSummary(transactions',
                                                      calls[c].args.startDate,
                                                      calls[c].args.endDate)}]
                   ELSE calls[c]]
  /\ UNCHANGED <<allSettings, queries, fetches>>

\* Date.now() advances.
Tick ==
  /\ now < MaxNow
  /\ now' = now + 1
  /\ UNCHANGED <<conn, persisted, uuids, lifecycle, clearCall, prefs, tasks, last>>

\* ---------------------------------------------------------- specification

Init ==
  /\ db = NullDb
  /\ opens = 0
  /\ closed = {}
  /\ tables = {}
  /\ transactions = {}
  /\ budgets = {}
  /\ subscriptions = {}
  /\ settings = {}
  /\ now = 1
  /\ uuids = 0
  /\ initPc = [p \in InitCalls |-> "idle"]
  /\ initRet = [p \in InitCalls |-> NullDb]
  /\ closing = 0
  /\ clearCall = NullDb
  /\ closedSinceInit = FALSE
  /\ prefs = NoItems
  /\ allSettings = NoBulkRead
  /\ queries = Mounted
  /\ fetches = NoFetches
  /\ calls = NoCalls
  /\ last = [op |-> "none", args |-> NoArgs, err |-> NoError, val |-> Void]

\* The identifiers a caller can hold.
Ids == 1..MaxUuids

\* The calls a client makes while the connection is opened and closed under
\* it: every storage operation, one input each.
LifecycleTransactionInput == [amount |-> 1, type |-> "expense", category |-> "food"]
LifecycleSubscriptionInput ==
  [name |-> "music", amount |-> 1, currency |-> "EUR", billingPeriod |-> "monthly",
   nextBillingDate |-> 2, notificationEnabled |-> TRUE, category |-> "entertainment"]

StorageCallIssued ==
  \/ uuids < MaxUuids /\ addTransaction(LifecycleTransactionInput) /\ Direct
  \/ \E id \in Ids : updateTransaction(id, [amount |-> 2]) /\ Direct
  \/ \E id \in Ids : deleteTransaction(id) /\ Direct
  \/ \E id \in Ids : getTransactionById(id) /\ Direct
  \/ getTransactions([type |-> "expense"]) /\ Direct
  \/ getTransactionSummary(0, MaxNow) /\ Direct
  \/ getSpendingByCategory(0, MaxNow) /\ Direct
  \/ uuids < MaxUuids /\ setBudget("food", 1, "monthly") /\ Direct
  \/ getBudgets /\ Direct
  \/ deleteBudget("food") /\ Direct
  \/ uuids < MaxUuids /\ addSubscription(LifecycleSubscriptionInput) /\ Direct
  \/ getSubscriptions /\ Direct
  \/ \E id \in Ids : deleteSubscription(id) /\ Direct
  \/ getSettings /\ Direct
  \/ updateSettings([currency |-> "EUR"]) /\ Direct
  \/ ClearTransactions
  \/ getDatabaseStats /\ Direct

\* ... and the rest of a clearAllData call issued earlier.
StorageCall == StorageCallIssued \/ ClearBudgets

\* Overlapping initDatabase calls, closeDatabase, and the calls that read and
\* write the settings row or empty the tables, as the clock advances.
Next ==
  \/ Tick
  \/ \E p \in InitCalls : initDatabase(p)
  \/ closeDatabase
  \/ getSettings /\ Direct
  \/ updateSettings([currency |-> "EUR"]) /\ Direct
  \/ clearAllData

Spec == Init /\ [][Next]_vars

\* One initDatabase call, closeDatabase, and every storage operation.
NextOps ==
  \/ initDatabase(1)
  \/ closeDatabase
  \/ StorageCall

SpecOps == Init /\ [][NextOps]_vars

\* ------------------------------------------------- the store in use

\* The state one initDatabase call on a fresh install leaves.
InitReady ==
  /\ db = 1
  /\ opens = 1
  /\ closed = {}
  /\ tables = TableNames
  /\ transactions = {}
  /\ budgets = {}
  /\ subscriptions = {}
  /\ now = 1
  /\ settings = {SeedSettingsRow}
  /\ uuids = 0
  /\ initPc = [p \in InitCalls |-> IF p = 1 THEN "done" ELSE "idle"]
  /\ initRet = [p \in InitCalls |-> IF p = 1 THEN 1 ELSE NullDb]
  /\ closing = 0
  /\ clearCall = NullDb
  /\ closedSinceInit = FALSE
  /\ prefs = NoItems
  /\ allSettings = NoBulkRead
  /\ queries = Mounted
  /\ fetches = NoFetches
  /\ calls = NoCalls
  /\ last = [op |-> "initDatabase", args |-> NoArgs, err |-> NoError, val |-> Handle(1)]

\* Writes of the three data tables and the settings row.
DataTransactionInputs ==
  {[amount |-> 1, type |-> "expense", category |-> "food"],
   [amount |-> 2, type |-> "income", category |-> "salary",
    description |-> "pay", timestamp |-> 0]}
DataUpdates == {[amount |-> 2, description |-> "lunch"]}
DataBudgetCategories == {"food", "travel"}
DataBudgetTerms == {<<1, "weekly">>, <<2, "monthly">>}
DataSubscriptionInputs ==
  {[name |-> "music", amount |-> 1, currency |-> "EUR", billingPeriod |-> "monthly",
    nextBillingDate |-> 2, notificationEnabled |-> TRUE, category |-> "entertainment"]}
DataSettingsUpdates == {[dangerZoneAmount |-> 5, notificationsEnabled |-> FALSE]}

NextData ==
  \/ \E input \in DataTransactionInputs : uuids < MaxUuids /\ addTransaction(input)
       /\ Direct
  \/ \E id \in Ids, updates \in DataUpdates : updateTransaction(id, updates) /\ Direct
  \/ \E id \in Ids : deleteTransaction(id) /\ Direct
  \/ \E id \in Ids : getTransactionById(id) /\ Direct
  \/ \E c \in DataBudgetCategories, t \in DataBudgetTerms :
       uuids < MaxUuids /\ setBudget(c, t[1], t[2]) /\ Direct
  \/ \E c \in DataBudgetCategories : deleteBudget(c) /\ Direct
  \/ \E input \in DataSubscriptionInputs : uuids < MaxUuids /\ addSubscription(input)
       /\ Direct
  \/ \E id \in Ids : deleteSubscription(id) /\ Direct
  \/ \E updates \in DataSettingsUpdates : updateSettings(updates) /\ Direct
  \/ clearAllData

SpecData == InitReady /\ [][NextData]_vars

\* The budgets table alone: three setBudget calls reach a second write of one
\* category beside a row of another.
NextBudget ==
  \/ Tick
  \/ \E c \in DataBudgetCategories, t \in DataBudgetTerms :
       uuids < MaxBudgetIds /\ setBudget(c, t[1], t[2]) /\ Direct
  \/ \E c \in DataBudgetCategories : deleteBudget(c) /\ Direct
  \/ getBudgets /\ Direct

SpecBudget == InitReady /\ [][NextBudget]_vars

\* The preferences store under its nine setters, nine getters and the reset.
PrefCurrencies == {"EUR", "GBP"}
PrefThemes == {"dark"}
PrefReminderTimes == {"08:30", Null}
PrefSyncTimes == {2, NullNum}
PrefTransactionTypes == {"income"}
PrefWeekStartDays == {0}

PrefSet ==
  \/ \E currency \in PrefCurrencies : setCurrency(currency)
  \/ \E theme \in PrefThemes : setTheme(theme)
  \/ \E enabled \in BOOLEAN : setNotificationsEnabled(enabled)
  \/ \E time \in PrefReminderTimes : setDailyReminderTime(time)
  \/ \E enabled \in BOOLEAN : setBiometricEnabled(enabled)
  \/ setOnboardingCompleted(TRUE)
  \/ \E time \in PrefSyncTimes : setLastSyncTime(time)
  \/ \E type \in PrefTransactionTypes : setDefaultTransactionType(type)
  \/ \E day \in PrefWeekStartDays : setWeekStartDay(day)

PrefGet ==
  \/ getCurrency
  \/ getTheme
  \/ getNotificationsEnabled
  \/ getDailyReminderTime
  \/ getBiometricEnabled
  \/ getOnboardingCompleted
  \/ getLastSyncTime
  \/ getDefaultTransactionType
  \/ getWeekStartDay

NextPrefs == PrefSet \/ PrefGet \/ resetAllSettings

SpecPrefs == InitReady /\ [][NextPrefs]_vars

\* getAllSettings calls while two keys are written, one of them by removal.
SnapshotCurrencies == {"EUR"}
SnapshotSyncTimes == {2, NullNum}

NextSnapshot ==
  \/ getAllSettings
  \/ \E currency \in SnapshotCurrencies : setCurrency(currency)
  \/ \E time \in SnapshotSyncTimes : setLastSyncTime(time)

SpecSnapshot == InitReady /\ [][NextSnapshot]_vars

\* A screen that renders one of the four hooks from the launch on, while
\* initDatabase runs and rows are added: fetches that fail before the store is
\* ready, refreshes, and fetches that overlap.
QueryInput == [amount |-> 1, type |-> "expense", category |-> "food"]

\* The hook q is the one the screen renders.
Rendered(q) ==
  /\ \A r \in QueryNames \ {q} : queries[r] = Mounted[r]
  /\ \A f \in FetchIds : fetches[f].query \in {q, "none"}

NextQuery ==
  \/ initDatabase(1)
  \/ uuids < MaxQueryRows /\ addTransaction(QueryInput) /\ Direct
  \/ \E q \in QueryNames : Rendered(q) /\ refresh(q)
  \/ \E f \in FetchIds : FetchRead(f)
  \/ \E f \in FetchIds : FetchDeliver(f)

SpecQuery == Init /\ [][NextQuery]_vars

\* The same screen on a store no row is added to, where every storage call
\* resolves or rejects: a statement issued takes effect, and a settled call's
\* completion is delivered.
NextFetch ==
  \/ initDatabase(1)
  \/ \E q \in QueryNames : Rendered(q) /\ refresh(q)
  \/ \E f \in FetchIds : FetchRead(f)
  \/ \E f \in FetchIds : FetchDeliver(f)

SpecFetchFair ==
  /\ Init /\ [][NextFetch]_vars
  /\ \A f \in FetchIds : WF_vars(FetchRead(f)) /\ WF_vars(FetchDeliver(f))

\* One useTransactions instance whose caller awaits each mutator, with inputs
\* the store accepts and an input it rejects.
MutateInputs ==
  {[amount |-> 1, type |-> "expense", category |-> "food"],
   [amount |-> 1, type |-> "transfer", category |-> "food"]}
MutateUpdates == {[amount |-> 3], [category |-> "travel"]}

NextMutate ==
  \/ \E input \in MutateInputs : calls = NoCalls /\ uuids < MaxUuids /\ add(input)
  \/ \E id \in Ids, updates \in MutateUpdates : calls = NoCalls /\ update(id, updates)
  \/ \E id \in Ids : calls = NoCalls /\ remove(id)
  \/ \E c \in CallIds : UpdateRead(c)
  \/ \E c \in CallIds : UpdateWrite(c)
  \/ \E c \in CallIds : MutatorReturn(c)

SpecMutate == InitReady /\ [][NextMutate]_vars

\* One transaction added through the hook, then updates of it through the
\* hook that are not awaited: up to MaxCalls in flight at once.
RaceInput == [amount |-> 1, type |-> "expense", category |-> "food"]

NextRace ==
  \/ transactions = {} /\ uuids < MaxUuids /\ add(RaceInput)
  \/ \E r \in transactions, updates \in MutateUpdates : update(r.id, updates)
  \/ \E c \in CallIds : UpdateRead(c)
  \/ \E c \in CallIds : UpdateWrite(c)
  \/ \E c \in CallIds : MutatorReturn(c)

SpecRace == InitReady /\ [][NextRace]_vars

\* One stored transaction and direct updateTransaction calls on it that are
\* not awaited (each is issued before any has returned), up to MaxCalls of
\* them in a run, as the clock advances.
NextLostUpdate ==
  \/ Tick
  \/ transactions = {} /\ uuids < MaxUuids /\ addTransaction(RaceInput) /\ Direct
  \/ \E r \in transactions, updates \in MutateUpdates :
       /\ \A c \in CallIds : calls[c].pc # "returned"
       /\ UpdateIssued(r.id, updates, FALSE)
  \/ \E c \in CallIds : UpdateRead(c)
  \/ \E c \in CallIds : UpdateWrite(c)
  \/ \E c \in CallIds : UpdateReturn(c)

SpecLostUpdate == InitReady /\ [][NextLostUpdate]_vars


\* One getTransactionSummary call over the whole range while transactions are
\* added, updated and deleted by calls that are not awaited.
SummaryInputs ==
  {[amount |-> 1, type |-> "income", category |-> "salary"],
   [amount |-> 2, type |-> "expense", category |-> "food"]}
SummaryUpdates == {[amount |-> 3], [type |-> "income"]}

NextSummary ==
  \/ calls = NoCalls /\ SummaryIssued(0, MaxNow)
  \/ \E c \in CallIds : SummaryRead(c)
  \/ \E c \in CallIds : SummaryReturn(c)
  \/ \E input \in SummaryInputs :
       uuids < MaxSummaryRows /\ addTransaction(input) /\ WhileSummarizing
  \/ \E r \in transactions, updates \in SummaryUpdates :
       updateTransaction(r.id, updates) /\ WhileSummarizing
  \/ \E r \in transactions : deleteTransaction(r.id) /\ WhileSummarizing

SpecSummary == InitReady /\ [][NextSummary]_vars


\* One useTransactions instance whose refresh is called while a mutator is
\* in flight and whose mutators are called while a fetch is: one fetch and
\* one mutator in flight together.
CacheUpdates == {[amount |-> 3]}

NextCache ==
  \/ fetches = NoFetches /\ refresh("useTransactions")
  \/ \E f \in FetchIds : FetchRead(f)
  \/ \E f \in FetchIds : FetchDeliver(f)
  \/ calls = NoCalls /\ uuids < MaxQueryRows /\ add(QueryInput)
  \/ \E r \in transactions, updates \in CacheUpdates :
       calls = NoCalls /\ update(r.id, updates)
  \/ \E r \in transactions : calls = NoCalls /\ remove(r.id)
  \/ \E c \in CallIds : UpdateRead(c)
  \/ \E c \in CallIds : UpdateWrite(c)
  \/ \E c \in CallIds : MutatorReturn(c)

SpecCache == InitReady /\ [][NextCache]_vars


\* One useTransactions instance rendered without options, whose caller awaits
\* each mutator and never refreshes: transactions dated by the clock and
\* transactions the caller dates in the past.
PatchInputs ==
  {[amount |-> 1, type |-> "expense", category |-> "food", description |-> "lunch"],
   [amount |-> 2, type |-> "income", category |-> "salary", description |-> "pay",
    timestamp |-> 0]}
PatchUpdates == {[amount |-> 3], [timestamp |-> 2]}

NextPatch ==
  \/ \E input \in PatchInputs : calls = NoCalls /\ uuids < MaxUuids /\ add(input)
  \/ \E r \in transactions, updates \in PatchUpdates :
       calls = NoCalls /\ update(r.id, updates)
  \/ \E r \in transactions : calls = NoCalls /\ remove(r.id)
  \/ \E c \in CallIds : UpdateRead(c)
  \/ \E c \in CallIds : UpdateWrite(c)
  \/ \E c \in CallIds : MutatorReturn(c)

SpecPatch == InitReady /\ [][NextPatch]_vars


\* One direct updateTransaction call on a stored transaction while
\* deleteTransaction and clearAllData calls, not awaited, take effect.
NextStale ==
  \/ uuids < MaxUuids /\ addTransaction(RaceInput) /\ Direct
  \/ \E r \in transactions, updates \in MutateUpdates :
       calls = NoCalls /\ UpdateIssued(r.id, updates, FALSE)
  \/ \E c \in CallIds : UpdateRead(c)
  \/ \E c \in CallIds : UpdateWrite(c)
  \/ \E c \in CallIds : UpdateReturn(c)
  \/ \E r \in transactions : deleteTransaction(r.id) /\ Direct
  \/ clearAllData

SpecStale == InitReady /\ [][NextStale]_vars


\* A session from the first launch on: initDatabase, one row written to each
\* table and the settings row updated, closeDatabase, and initDatabase again,
\* each initDatabase call awaited before the next; the data is written once
\* the first call has returned and before the first close, and read at any
\* time.
FirstSession == initPc[1] = "done" /\ closed = {}

NextReopen ==
  \/ \E p \in InitCalls :
       /\ \A q \in InitCalls : q < p => initPc[q] \in {"done", "failed"}
       /\ initDatabase(p)
  \/ closeDatabase
  \/ FirstSession /\ transactions = {} /\ addTransaction(LifecycleTransactionInput) /\ Direct
  \/ FirstSession /\ budgets = {} /\ setBudget("food", 1, "monthly") /\ Direct
  \/ FirstSession /\ subscriptions = {} /\ addSubscription(LifecycleSubscriptionInput) /\ Direct
  \/ FirstSession /\ updateSettings([currency |-> "EUR"]) /\ Direct
  \/ getSettings /\ Direct

SpecReopen == Init /\ [][NextReopen]_vars

\* The transactions table under adds, updates, deletes and the reads over it.
TxInputs ==
  {[amount |-> 2, type |-> "expense", category |-> "food"],
   [amount |-> 2, type |-> "expense", category |-> "food", description |-> "lunch"],
   [amount |-> 1, type |-> "income", category |-> "salary", timestamp |-> 0],
   [amount |-> 1, type |-> "income", category |-> "salary", description |-> "pay",
    timestamp |-> 0]}
TxUpdates == {[amount |-> 3, timestamp |-> 2]}
\* Ranges that hold every timestamp, some, one instant, and none (inverted).
TxRanges == {<<0, 2>>, <<0, 1>>, <<1, 2>>, <<1, 1>>, <<2, 0>>}
TxIds == 1..MaxTransactions

NextTx ==
  \/ \E input \in TxInputs : uuids < MaxTransactions /\ addTransaction(input) /\ Direct
  \/ \E id \in TxIds, updates \in TxUpdates : updateTransaction(id, updates) /\ Direct
  \/ \E id \in TxIds : deleteTransaction(id) /\ Direct
  \/ \E id \in TxIds : getTransactionById(id) /\ Direct
  \/ \E range \in TxRanges : getTransactionSummary(range[1], range[2]) /\ Direct

SpecTx == InitReady /\ [][NextTx]_vars

\* Partial updates of stored transactions as the clock advances: the amount
\* and the timestamp in an update object that also carries an updatedAt of
\* the caller's, and the type, the category and the description.
UpdInputs == {[amount |-> 1, type |-> "expense", category |-> "food"]}
UpdUpdates ==
  {[amount |-> 3, timestamp |-> 0, updatedAt |-> 0],
   [type |-> "income", category |-> "salary", description |-> "dinner"]}

NextUpd ==
  \/ Tick
  \/ \E input \in UpdInputs : uuids < MaxUuids /\ addTransaction(input) /\ Direct
  \/ \E id \in Ids, updates \in UpdUpdates : updateTransaction(id, updates) /\ Direct

SpecUpd == InitReady /\ [][NextUpd]_vars

\* Rows of two types, two expense categories and three timestamps, two of
\* them in one category.
ListInputs ==
  {[amount |-> 2, type |-> "expense", category |-> "food"],
   [amount |-> 1, type |-> "expense", category |-> "food", timestamp |-> 2],
   [amount |-> 1, type |-> "expense", category |-> "travel", timestamp |-> 2],
   [amount |-> 1, type |-> "income", category |-> "salary", timestamp |-> 0]}

\* The rows the listings are read over.
ListRows ==
  {[amount |-> 2, type |-> "expense", category |-> "food"],
   [amount |-> 1, type |-> "expense", category |-> "travel", timestamp |-> 2],
   [amount |-> 1, type |-> "income", category |-> "salary", timestamp |-> 0]}

ListFilters ==
  {NoOptions,
   [type |-> "expense"],
   [category |-> "food"],
   [type |-> "expense", category |-> "food"],
   [type |-> "income", category |-> "food"]}
ListDates ==
  {[startDate |-> 1],
   [endDate |-> 1],
   [startDate |-> 1, endDate |-> 2],
   [endDate |-> 0],
   [type |-> "expense", startDate |-> 2]}
ListPages ==
  {[limit |-> 1],
   [limit |-> 2, offset |-> 1],
   [offset |-> 1],
   [limit |-> 0],
   [type |-> "expense", limit |-> 1, offset |-> 1]}

NextList ==
  \/ \E input \in ListRows : uuids < MaxTransactions /\ addTransaction(input) /\ Direct
  \/ \E options \in ListFilters \cup ListDates \cup ListPages : getTransactions(options)
       /\ Direct

SpecList == InitReady /\ [][NextList]_vars

\* The aggregate reads over transactions and budgets as rows come and go.
AggRanges == {<<0, 2>>, <<1, 2>>, <<2, 2>>, <<2, 0>>}
AggBudgets == {<<"food", 1, "monthly">>}

NextAgg ==
  \/ \E input \in ListInputs : uuids < MaxTransactions /\ addTransaction(input) /\ Direct
  \/ \E id \in TxIds : deleteTransaction(id) /\ Direct
  \/ \E b \in AggBudgets : uuids < MaxTransactions /\ setBudget(b[1], b[2], b[3]) /\ Direct
  \/ \E range \in AggRanges : getSpendingByCategory(range[1], range[2]) /\ Direct
  \/ getDatabaseStats /\ Direct

SpecAgg == InitReady /\ [][NextAgg]_vars

\* A client that fills every table and the preferences store and awaits each
\* clearAllData call: no other call runs between the call's two statements.
ClearCurrencies == {"EUR"}
ClearReminderTimes == {"08:30", Null}

NextClear ==
  \/ \E input \in DataTransactionInputs :
       clearCall = NullDb /\ uuids < MaxTransactions /\ addTransaction(input) /\ Direct
  \/ \E c \in DataBudgetCategories, t \in DataBudgetTerms :
       clearCall = NullDb /\ uuids < MaxTransactions /\ setBudget(c, t[1], t[2]) /\ Direct
  \/ \E input \in DataSubscriptionInputs :
       clearCall = NullDb /\ uuids < MaxTransactions /\ addSubscription(input) /\ Direct
  \/ \E updates \in DataSettingsUpdates : clearCall = NullDb /\ updateSettings(updates)
       /\ Direct
  \/ \E currency \in ClearCurrencies : clearCall = NullDb /\ setCurrency(currency)
  \/ \E time \in ClearReminderTimes : clearCall = NullDb /\ setDailyReminderTime(time)
  \/ clearAllData

SpecClear == InitReady /\ [][NextClear]_vars

\* Writes whose enumerated value is inside and outside its domain.
EnumTransactionInputs ==
  {[amount |-> 1, type |-> "expense", category |-> "food"],
   [amount |-> 1, type |-> "transfer", category |-> "food"]}
EnumUpdates == {[type |-> "income"], [type |-> "transfer"], [amount |-> 2]}
EnumBudgetTerms == {<<1, "weekly">>, <<2, "daily">>}
EnumSubscriptionInputs ==
  {[name |-> "music", amount |-> 1, currency |-> "EUR", billingPeriod |-> p,
    nextBillingDate |-> 2, notificationEnabled |-> TRUE,
    category |-> "entertainment"] : p \in {"monthly", "daily"}}

NextEnum ==
  \/ \E input \in EnumTransactionInputs :
       uuids < MaxTransactions /\ addTransaction(input) /\ Direct
  \/ \E id \in TxIds, updates \in EnumUpdates : updateTransaction(id, updates) /\ Direct
  \/ \E t \in EnumBudgetTerms : uuids < MaxTransactions /\ setBudget("food", t[1], t[2])
       /\ Direct
  \/ \E input \in EnumSubscriptionInputs :
       uuids < MaxTransactions /\ addSubscription(input) /\ Direct

SpecEnum == InitReady /\ [][NextEnum]_vars

\* ------------------------------------------------------------------ claims

\* What the claim about getTransactionSummary expects, counted row by row over
\* the identifiers handed out.
C1_AmountOf(id, type, startDate, endDate) ==
  LET hit == {r \in transactions : /\ r.id = id
                                   /\ r.type = type
                                   /\ startDate <= r.timestamp
                                   /\ r.timestamp <= endDate}
  IN IF hit = {} THEN 0 ELSE (CHOOSE r \in hit : TRUE).amount

RECURSIVE C1_Total(_, _, _, _)
C1_Total(n, type, startDate, endDate) ==
  IF n = 0 THEN 0
  ELSE C1_AmountOf(n, type, startDate, endDate) + C1_Total(n - 1, type, startDate, endDate)

C1_RowsIn(startDate, endDate) ==
  {r \in transactions : startDate <= r.timestamp /\ r.timestamp <= endDate}

\* C1: getTransactionSummary(startDate, endDate), run on one store state,
\* raises no error and returns totalIncome = the sum of the amounts of the
\* income rows with startDate <= timestamp <= endDate, totalExpenses = the same
\* sum over the expense rows, balance = totalIncome - totalExpenses (signed) and
\* transactionCount = the number of rows in the range; all four are 0 when no
\* row is in the range.
C1_SummaryCorrect ==
  [][(/\ last'.op = "getTransactionSummary"
      /\ getTransactionSummary(last'.args.startDate, last'.args.endDate))
     => LET startDate == last'.args.startDate
            endDate == last'.args.endDate
            income == C1_Total(uuids, "income", startDate, endDate)
            expenses == C1_Total(uuids, "expense", startDate, endDate)
        IN /\ last'.err = NoError
           /\ last'.val.totalIncome = income
           /\ last'.val.totalExpenses = expenses
           /\ last'.val.balance = income - expenses
           /\ last'.val.transactionCount = Cardinality(C1_RowsIn(startDate, endDate))
           /\ C1_RowsIn(startDate, endDate) = {} =>
                last'.val = [totalIncome |-> 0, totalExpenses |-> 0,
                             balance |-> 0, transactionCount |-> 0]]_vars

\* A summary over a range that holds income and expense rows, with more spent
\* than earned, and leaves a stored row out.
C1_Witness ==
  /\ last.op = "getTransactionSummary"
  /\ last.err = NoError
  /\ last.val.totalIncome > 0
  /\ last.val.balance < 0
  /\ last.val.transactionCount = 2
  /\ Cardinality(transactions) = 3

\* C2: addTransaction(input) followed at once by getTransactionById of the
\* returned id yields a record equal field by field to the returned one.
C2_RoundTrip ==
  [][(/\ last.op = "addTransaction"
      /\ last.err = NoError
      /\ last'.op = "getTransactionById"
      /\ last'.args.id = last.val.id
      /\ getTransactionById(last.val.id))
     => last'.val = last.val]_vars

C3_OneRowPerCategory ==
  \A r1, r2 \in budgets : r1.category = r2.category => r1 = r2

\* C3: the budgets table never holds two rows of one category, whatever the
\* interleaving of setBudget, deleteBudget and the two statements of
\* clearAllData; and after setBudget(C, A, P), also on a category that had a
\* budget, the one row of C has amount A and period P.
C3_UpsertByCategory ==
  [][/\ C3_OneRowPerCategory'
     /\ (/\ last'.op = "setBudget"
         /\ setBudget(last'.args.category, last'.args.amount, last'.args.period))
        => /\ last'.err = NoError
           /\ Cardinality({r \in budgets' : r.category = last'.args.category}) = 1
           /\ \A r \in budgets' :
                r.category = last'.args.category
                  => r.amount = last'.args.amount /\ r.period = last'.args.period]_vars

\* A second setBudget on a category: the row is older than the call's record,
\* and holds the call's amount and period.
C3_Witness ==
  /\ last.op = "setBudget"
  /\ last.err = NoError
  /\ \E r \in budgets :
       /\ r.category = last.args.category
       /\ r.id # last.val.id
       /\ r.amount = last.args.amount
       /\ r.period = last.args.period

\* C4: deleteTransaction(id), deleteSubscription(id) and deleteBudget(category)
\* return false and change no table when no row matches; when a row matches
\* they return true and remove exactly that row, and a lookup of the identifier
\* that follows returns absent.
C4_DeleteSemantics ==
  [][/\ (last'.op = "deleteTransaction" /\ deleteTransaction(last'.args.id)) =>
          LET hit == {r \in transactions : r.id = last'.args.id} IN
          /\ last'.err = NoError
          /\ last'.val = Bool(hit # {})
          /\ transactions' = transactions \ hit
          /\ Cardinality(hit) <= 1
          /\ \A r \in transactions' : r.id # last'.args.id
          /\ UNCHANGED <<tables, budgets, subscriptions, settings>>
     /\ (last'.op = "deleteSubscription" /\ deleteSubscription(last'.args.id)) =>
          LET hit == {r \in subscriptions : r.id = last'.args.id} IN
          /\ last'.err = NoError
          /\ last'.val = Bool(hit # {})
          /\ subscriptions' = subscriptions \ hit
          /\ Cardinality(hit) <= 1
          /\ \A r \in subscriptions' : r.id # last'.args.id
          /\ UNCHANGED <<tables, transactions, budgets, settings>>
     /\ (last'.op = "deleteBudget" /\ deleteBudget(last'.args.category)) =>
          LET hit == {r \in budgets : r.category = last'.args.category} IN
          /\ last'.err = NoError
          /\ last'.val = Bool(hit # {})
          /\ budgets' = budgets \ hit
          /\ Cardinality(hit) <= 1
          /\ \A r \in budgets' : r.category # last'.args.category
          /\ UNCHANGED <<tables, transactions, subscriptions, settings>>
     /\ (/\ last.op = "deleteTransaction"
         /\ last.val = Bool(TRUE)
         /\ last'.op = "getTransactionById"
         /\ last'.args.id = last.args.id
         /\ getTransactionById(last.args.id))
        => last'.val = NoRow]_vars

\* deleteTransaction has just removed the row of its identifier and answered
\* true, another transaction still being stored.
C4_Witness ==
  /\ last.op = "deleteTransaction"
  /\ last.err = NoError
  /\ last.val = Bool(TRUE)
  /\ last.args.id <= uuids
  /\ \A r \in transactions : r.id # last.args.id
  /\ transactions # {}

\* initDatabase has never been called.
C5_NeverInitialized == \A p \in InitCalls : initPc[p] = "idle"

\* C5: every storage operation invoked while initDatabase has never been
\* called fails with the 'Database not initialized' error and leaves every
\* table unchanged.
C5_FailsBeforeInit ==
  [][(C5_NeverInitialized /\ StorageCall)
     => /\ last'.err = NotInitialized
        /\ last'.val = Void
        /\ UNCHANGED <<persisted, uuids, clearCall>>]_vars

\* A write refused with 'Database not initialized' before any initDatabase call.
C5_Witness ==
  /\ C5_NeverInitialized
  /\ last.op = "updateSettings"
  /\ last.err = NotInitialized
  /\ tables = {}

\* C6: as long as no connection has been closed, the store is opened at most
\* once however many initDatabase calls overlap, every completed call has
\* returned that one handle, and a call that finds the connection in place
\* returns at once, creating no table and seeding no row.
C6_OpenedOnce ==
  [][closed' = {} =>
       /\ opens' <= 1
       /\ \A p \in InitCalls : initPc'[p] = "done" => initRet'[p] = 1
       /\ \A p \in InitCalls :
            (db # NullDb /\ InitStart(p))
              => initPc'[p] = "done" /\ initRet'[p] = db /\ UNCHANGED persisted]_vars

\* C7: once an initDatabase call has completed, the settings table holds
\* exactly one row, the row 'default'.
C7_OneSettingsRow ==
  (\E p \in InitCalls : initPc[p] = "done")
    => /\ Cardinality(settings) = 1
       /\ \A r \in settings : r.id = "default"

\* C8: a step of initDatabase on an empty settings table seeds nothing but a
\* row with dangerZoneAmount 0, currency 'USD', theme 'system' and
\* notifications on; on a settings table that holds a row it changes nothing
\* in it.
C8_SeedDefaults ==
  [][\A p \in InitCalls :
       initDatabase(p) =>
         IF settings = {}
           THEN \A r \in settings' :
                  /\ r.dangerZoneAmount = 0
                  /\ r.currency = "USD"
                  /\ r.theme = "system"
                  /\ r.notificationsEnabled = 1
           ELSE settings' = settings]_vars

\* C9: a storage operation issued after a closeDatabase call has completed and
\* before the next initDatabase call fails with the 'Database not initialized'
\* error.
C9_FailsAfterClose ==
  [][(closedSinceInit /\ StorageCallIssued)
     => /\ last'.err = NotInitialized
        /\ clearCall' = clearCall]_vars

\* The record getSettings would read back from the settings table.
C10_StoredSettings == SettingsRecord

\* C10: the record a write returns is the row the store holds for it right
\* after the write, field by field: addTransaction, updateTransaction of a
\* stored id, setBudget, addSubscription and updateSettings.
C10_ReturnsStoredRow ==
  [][/\ (/\ last'.op = "addTransaction"
         /\ last'.err = NoError
         /\ addTransaction(last'.args))
        => last'.val \in transactions'
     /\ (/\ last'.op = "updateTransaction"
         /\ last'.err = NoError
         /\ last'.val # NoRow
         /\ updateTransaction(last'.args.id, last'.args.updates))
        => last'.val \in transactions'
     /\ (/\ last'.op = "setBudget"
         /\ last'.err = NoError
         /\ setBudget(last'.args.category, last'.args.amount, last'.args.period))
        => last'.val \in budgets'
     /\ (/\ last'.op = "addSubscription"
         /\ last'.err = NoError
         /\ addSubscription(last'.args))
        => \E r \in subscriptions' : last'.val = SubscriptionRecord(r)
     /\ (/\ last'.op = "updateSettings"
         /\ last'.err = NoError
         /\ updateSettings(last'.args))
        => last'.val = C10_StoredSettings']_vars

\* The columns a caller's update object may carry.
C11_InputFields == {"amount", "type", "category", "description", "timestamp"}

\* C11: updateTransaction(id, updates) on a stored transaction keeps the row's
\* id and createdAt, gives each field present in updates its new value, keeps
\* each field absent from updates, sets updatedAt to the clock's value at the
\* write (whatever updatedAt the caller passed, and never earlier than the
\* previous updatedAt), and changes no other row.
C11_UpdateInPlace ==
  [][(/\ last'.op = "updateTransaction"
      /\ last'.err = NoError
      /\ last'.val # NoRow
      /\ updateTransaction(last'.args.id, last'.args.updates))
     => LET id == last'.args.id
            updates == last'.args.updates
            old == CHOOSE r \in transactions : r.id = id
            new == CHOOSE r \in transactions' : r.id = id
        IN /\ Cardinality({r \in transactions' : r.id = id}) = 1
           /\ new.id = old.id
           /\ new.createdAt = old.createdAt
           /\ \A k \in C11_InputFields \cap DOMAIN updates : new[k] = updates[k]
           /\ \A k \in C11_InputFields \ DOMAIN updates : new[k] = old[k]
           /\ new.updatedAt = now
           /\ new.updatedAt >= old.updatedAt
           /\ transactions' \ {new} = transactions \ {old}
           /\ UNCHANGED <<budgets, subscriptions, settings>>]_vars

\* An update that carried updatedAt 0 has left the row stamped with the later
\* clock value, its createdAt as it was, next to another stored row.
C11_Witness ==
  /\ last.op = "updateTransaction"
  /\ last.err = NoError
  /\ "updatedAt" \in DOMAIN last.args.updates
  /\ Cardinality(transactions) = 2
  /\ \E r \in transactions :
       /\ r.id = last.args.id
       /\ r.timestamp = last.args.updates.timestamp
       /\ r.updatedAt = MaxNow
       /\ r.createdAt < r.updatedAt

\* C12: getTransactionById(id) and updateTransaction(id, updates) for an id
\* that has no row raise no error, return null, and leave every table
\* unchanged.
C12_AbsentIsNull ==
  [][/\ (/\ last'.op = "getTransactionById"
         /\ \A r \in transactions : r.id # last'.args.id
         /\ getTransactionById(last'.args.id))
        => /\ last'.err = NoError
           /\ last'.val = NoRow
           /\ UNCHANGED persisted
     /\ (/\ last'.op = "updateTransaction"
         /\ \A r \in transactions : r.id # last'.args.id
         /\ updateTransaction(last'.args.id, last'.args.updates))
        => /\ last'.err = NoError
           /\ last'.val = NoRow
           /\ UNCHANGED persisted]_vars

\* An update of an id that has no row has returned null while other rows are
\* stored.
C12_Witness ==
  /\ last.op = "updateTransaction"
  /\ last.err = NoError
  /\ last.val = NoRow
  /\ transactions # {}
  /\ \A r \in transactions : r.id # last.args.id

\* A row satisfies every filter the options object carries.
C13_Satisfies(r, options) ==
  /\ "type" \in DOMAIN options => r.type = options.type
  /\ "category" \in DOMAIN options => r.category = options.category
  /\ "startDate" \in DOMAIN options => r.timestamp >= options.startDate
  /\ "endDate" \in DOMAIN options => r.timestamp <= options.endDate

\* The rows of a returned list, and that it holds none twice.
C13_Rows(list) == {list[i] : i \in DOMAIN list}
C13_NoRepeat(list) == \A i, j \in DOMAIN list : i # j => list[i] # list[j]

\* C13: getTransactions with any subset of the type and category filters
\* returns exactly the stored rows that satisfy every supplied filter, each
\* once; with no filter it returns every stored row.
C13_FilterExact ==
  [][(/\ last'.op = "getTransactions"
      /\ DOMAIN last'.args \subseteq {"type", "category"}
      /\ getTransactions(last'.args))
     => /\ last'.err = NoError
        /\ C13_NoRepeat(last'.val.list)
        /\ C13_Rows(last'.val.list) =
             {r \in transactions : C13_Satisfies(r, last'.args)}
        /\ last'.args = NoOptions => C13_Rows(last'.val.list) = transactions]_vars

\* A listing by type and category together that returned some stored rows and
\* left others out.
C13_Witness ==
  /\ last.op = "getTransactions"
  /\ last.err = NoError
  /\ DOMAIN last.args = {"type", "category"}
  /\ last.val.list # <<>>
  /\ Cardinality(transactions) > Len(last.val.list)
  /\ \E r \in transactions : r.type = last.args.type /\ r.category # last.args.category

\* C14: for every startDate and endDate a caller supplies, 0 included, the
\* rows returned are exactly the stored rows within the supplied inclusive
\* bounds that also satisfy the other filters.
C14_DateBounds ==
  [][(/\ last'.op = "getTransactions"
      /\ DOMAIN last'.args \subseteq {"type", "category", "startDate", "endDate"}
      /\ DOMAIN last'.args \cap {"startDate", "endDate"} # {}
      /\ getTransactions(last'.args))
     => /\ last'.err = NoError
        /\ C13_Rows(last'.val.list) =
             {r \in transactions : C13_Satisfies(r, last'.args)}]_vars

\* C15: whatever the filters, limit and offset, a list returned by
\* getTransactions has timestamps that never increase from one row to the next.
C15_NewestFirst ==
  [][(/\ last'.op = "getTransactions"
      /\ last'.err = NoError
      /\ getTransactions(last'.args))
     => \A i \in 1..(Len(last'.val.list) - 1) :
          last'.val.list[i].timestamp >= last'.val.list[i + 1].timestamp]_vars

\* A returned page of two rows of different timestamps, cut from three rows.
C15_Witness ==
  /\ last.op = "getTransactions"
  /\ last.err = NoError
  /\ "limit" \in DOMAIN last.args
  /\ Len(last.val.list) = 2
  /\ last.val.list[1].timestamp > last.val.list[2].timestamp
  /\ Cardinality(transactions) = 3

\* C16: with a limit L and/or an offset O supplied (L >= 0, O >= 0, O = 0 when
\* omitted, no limit when L is omitted) getTransactions raises no error and
\* returns the rows O+1 .. O+L of a timestamp-descending listing of the rows
\* that satisfy the filters.
C16_Page ==
  [][(/\ last'.op = "getTransactions"
      /\ DOMAIN last'.args \cap {"limit", "offset"} # {}
      /\ getTransactions(last'.args))
     => /\ last'.err = NoError
        /\ \E s \in Listings({r \in transactions : C13_Satisfies(r, last'.args)}) :
             LET O == IF "offset" \in DOMAIN last'.args THEN last'.args.offset ELSE 0
                 L == IF "limit" \in DOMAIN last'.args THEN last'.args.limit ELSE Len(s)
             IN /\ \A i \in 1..(Len(s) - 1) : s[i].timestamp >= s[i + 1].timestamp
                /\ last'.val.list =
                     [i \in 1..(IF Len(s) - O < 0 THEN 0
                                ELSE IF Len(s) - O < L THEN Len(s) - O ELSE L)
                        |-> s[O + i]]]_vars

\* The expense rows of a category inside a range, and their amounts added up
\* identifier by identifier.
C17_Spent(category, startDate, endDate) ==
  {r \in transactions :
     /\ r.type = "expense"
     /\ r.category = category
     /\ startDate <= r.timestamp
     /\ r.timestamp <= endDate}

RECURSIVE C17_Total(_, _, _, _)
C17_Total(n, category, startDate, endDate) ==
  IF n = 0 THEN 0
  ELSE C17_Total(n - 1, category, startDate, endDate)
       + (IF \E r \in C17_Spent(category, startDate, endDate) : r.id = n
            THEN (CHOOSE r \in C17_Spent(category, startDate, endDate) : r.id = n).amount
            ELSE 0)

\* C17: getSpendingByCategory(startDate, endDate) returns one entry for each
\* category with an expense row in the inclusive range and for no other
\* category, income rows never counted, each entry's total the sum of that
\* category's expense amounts in the range, entries in order of total, largest
\* first.
C17_SpendingByCategory ==
  [][(/\ last'.op = "getSpendingByCategory"
      /\ getSpendingByCategory(last'.args.startDate, last'.args.endDate))
     => LET startDate == last'.args.startDate
            endDate == last'.args.endDate
            list == last'.val.list
        IN /\ last'.err = NoError
           /\ \A r \in transactions :
                C17_Spent(r.category, startDate, endDate) # {}
                  => Cardinality({i \in DOMAIN list : list[i].category = r.category}) = 1
           /\ \A i \in DOMAIN list :
                /\ C17_Spent(list[i].category, startDate, endDate) # {}
                /\ list[i].total =
                     C17_Total(uuids, list[i].category, startDate, endDate)
           /\ \A i \in 1..(Len(list) - 1) : list[i].total >= list[i + 1].total]_vars

\* Two categories returned, the larger total first and made of two rows, an
\* income row in the range left out.
C17_Witness ==
  /\ last.op = "getSpendingByCategory"
  /\ last.err = NoError
  /\ Len(last.val.list) = 2
  /\ last.val.list[1].total > last.val.list[2].total
  /\ Cardinality(C17_Spent(last.val.list[1].category,
                           last.args.startDate, last.args.endDate)) = 2

\* C18: getDatabaseStats returns the number of transaction rows, the number of
\* budget rows, and the least and greatest transaction timestamp; both are
\* null exactly when there is no transaction, and otherwise the oldest is not
\* after the newest.
C18_Stats ==
  [][(last'.op = "getDatabaseStats" /\ getDatabaseStats)
     => LET stats == last'.val IN
        /\ last'.err = NoError
        /\ stats.transactionCount = Cardinality(transactions)
        /\ stats.budgetCount = Cardinality(budgets)
        /\ stats.oldestTransaction = NullNum <=> stats.transactionCount = 0
        /\ stats.newestTransaction = NullNum <=> stats.transactionCount = 0
        /\ stats.transactionCount # 0 =>
             /\ \E r \in transactions : r.timestamp = stats.oldestTransaction
             /\ \E r \in transactions : r.timestamp = stats.newestTransaction
             /\ \A r \in transactions :
                  /\ stats.oldestTransaction <= r.timestamp
                  /\ r.timestamp <= stats.newestTransaction
             /\ stats.oldestTransaction <= stats.newestTransaction]_vars

\* Statistics over transactions of different timestamps and one budget.
C18_Witness ==
  /\ last.op = "getDatabaseStats"
  /\ last.err = NoError
  /\ last.val.transactionCount = 2
  /\ last.val.budgetCount = 1
  /\ last.val.oldestTransaction < last.val.newestTransaction

\* C19: clearAllData leaves the transactions and the budgets table empty, and
\* leaves the subscriptions table, the settings row and every key of the
\* preferences store as they were.
C19_ClearsTwoTables ==
  [][/\ clearAllData => UNCHANGED <<subscriptions, settings, prefs, tables>>
     /\ (/\ last'.op = "clearAllData"
         /\ last'.err = NoError
         /\ ClearBudgets)
        => transactions' = {} /\ budgets' = {}]_vars

\* clearAllData has completed on a store that held three rows, one of them a
\* subscription: the subscription, an updated settings row and the written
\* preference keys are still there.
C19_Witness ==
  /\ last.op = "clearAllData"
  /\ last.err = NoError
  /\ uuids = MaxTransactions
  /\ transactions = {}
  /\ budgets = {}
  /\ Cardinality(subscriptions) = 1
  /\ \E r \in settings : r.dangerZoneAmount = 5
  /\ DOMAIN prefs = {KEYS.CURRENCY, KEYS.DAILY_REMINDER_TIME}

\* Every stored row's enumerated column holds a value of its domain.
C20_InDomain ==
  /\ \A r \in transactions : r.type \in {"income", "expense"}
  /\ \A r \in budgets : r.period \in {"weekly", "monthly", "yearly"}
  /\ \A r \in subscriptions : r.billingPeriod \in {"weekly", "monthly", "yearly"}

\* C20: a write that carries a transaction type, a budget period or a
\* subscription billingPeriod outside its domain fails with an error and
\* leaves every table unchanged, so every stored row keeps a value of the
\* domain, after updateTransaction and after a setBudget on an existing
\* category too.
C20_RejectsOutOfDomain ==
  [][/\ C20_InDomain'
     /\ (/\ last'.op = "addTransaction"
         /\ last'.args.type \notin {"income", "expense"}
         /\ addTransaction(last'.args))
        => last'.err # NoError /\ UNCHANGED persisted
     /\ (/\ last'.op = "updateTransaction"
         /\ "type" \in DOMAIN last'.args.updates
         /\ \E r \in transactions : r.id = last'.args.id
         /\ updateTransaction(last'.args.id, last'.args.updates)
         /\ last'.args.updates.type \notin {"income", "expense"})
        => last'.err # NoError /\ UNCHANGED persisted
     /\ (/\ last'.op = "setBudget"
         /\ last'.args.period \notin {"weekly", "monthly", "yearly"}
         /\ setBudget(last'.args.category, last'.args.amount, last'.args.period))
        => last'.err # NoError /\ UNCHANGED persisted
     /\ (/\ last'.op = "addSubscription"
         /\ last'.args.billingPeriod \notin {"weekly", "monthly", "yearly"}
         /\ addSubscription(last'.args))
        => last'.err # NoError /\ UNCHANGED persisted]_vars

\* A setBudget with a period outside the domain has been refused on a category
\* that has a budget, next to a stored transaction.
C20_Witness ==
  /\ last.op = "setBudget"
  /\ last.err = SqlError
  /\ last.args.period = "daily"
  /\ \E r \in budgets : r.category = last.args.category /\ r.period = "weekly"
  /\ transactions # {}

\* C21: setBudget on a category that has a budget row keeps that row's id and
\* createdAt and sets its amount, period and updatedAt; every other budget row
\* and every other table is as before.
C21_UpsertInPlace ==
  [][(/\ last'.op = "setBudget"
      /\ setBudget(last'.args.category, last'.args.amount, last'.args.period)
      /\ \E r \in budgets : r.category = last'.args.category)
     => /\ last'.err = NoError
        /\ \E r \in budgets :
             /\ r.category = last'.args.category
             /\ budgets' = (budgets \ {r}) \cup
                   {[id |-> r.id, category |-> r.category, createdAt |-> r.createdAt,
                     amount |-> last'.args.amount, period |-> last'.args.period,
                     updatedAt |-> now]}
        /\ UNCHANGED <<tables, transactions, subscriptions, settings, prefs>>]_vars

\* A later setBudget on a category, beside a row of another category: the row
\* is older than the call and carries the call's amount and period.
C21_Witness ==
  /\ last.op = "setBudget"
  /\ last.err = NoError
  /\ \E r, other \in budgets :
       /\ r.category = last.args.category
       /\ r.id # last.val.id
       /\ r.createdAt < r.updatedAt
       /\ r.amount = last.args.amount
       /\ r.period = last.args.period
       /\ other.category # r.category

C22_SetterField ==
  [setCurrency |-> "currency", setTheme |-> "theme",
   setNotificationsEnabled |-> "notificationsEnabled",
   setDailyReminderTime |-> "dailyReminderTime",
   setBiometricEnabled |-> "biometricEnabled",
   setOnboardingCompleted |-> "onboardingCompleted",
   setLastSyncTime |-> "lastSyncTime",
   setDefaultTransactionType |-> "defaultTransactionType",
   setWeekStartDay |-> "weekStartDay"]
C22_GetterField ==
  [getCurrency |-> "currency", getTheme |-> "theme",
   getNotificationsEnabled |-> "notificationsEnabled",
   getDailyReminderTime |-> "dailyReminderTime",
   getBiometricEnabled |-> "biometricEnabled",
   getOnboardingCompleted |-> "onboardingCompleted",
   getLastSyncTime |-> "lastSyncTime",
   getDefaultTransactionType |-> "defaultTransactionType",
   getWeekStartDay |-> "weekStartDay"]

\* The one argument of a setter call.
C22_Argument(args) == args[CHOOSE k \in DOMAIN args : TRUE]

\* What the getter of a field returns once the field was set to value: the
\* value, or the default when the value is null.
C22_Expected(field, value) ==
  IF field = "dailyReminderTime" /\ value = Null THEN DEFAULTS.dailyReminderTime
  ELSE IF field = "lastSyncTime" /\ value = NullNum THEN DEFAULTS.lastSyncTime
  ELSE value

\* C22: every getter returns the value of the latest set of its key, or the
\* key's default when the key was never written, was set to null or was
\* removed by resetAllSettings. Step by step: with no key written the nine
\* getters return the nine defaults; a set of one key makes that key's getter
\* return the value set (the default, for null) and leaves what the other
\* eight getters return as it was; resetAllSettings makes the nine getters
\* return the defaults; a getter returns what Getters gives on the store and
\* writes nothing.
C22_GetterReturnsLatestSet ==
  [][/\ prefs = NoItems => Getters(prefs) = DEFAULTS
     /\ last'.op \in DOMAIN C22_SetterField =>
          LET field == C22_SetterField[last'.op] IN
          /\ Getters(prefs')[field] = C22_Expected(field, C22_Argument(last'.args))
          /\ \A f \in Fields \ {field} : Getters(prefs')[f] = Getters(prefs)[f]
     /\ last'.op = "resetAllSettings" => Getters(prefs') = DEFAULTS
     /\ last'.op \in DOMAIN C22_GetterField =>
          /\ last'.val.value = Getters(prefs)[C22_GetterField[last'.op]]
          /\ prefs' = prefs]_vars

\* A numeric getter returns a number that was set, while another key holds a
\* set value and a third was set back to null.
C22_Witness ==
  /\ last.op = "getLastSyncTime"
  /\ last.val.value = 2
  /\ Getters(prefs).currency = "GBP"
  /\ Getters(prefs).notificationsEnabled = FALSE
  /\ KEYS.THEME \in DOMAIN prefs
  /\ KEYS.DAILY_REMINDER_TIME \notin DOMAIN prefs

C24_Queries == {"useTransactions", "useTransactionSummary", "useSpendingByCategory"}

\* C24: for useTransactions, useTransactionSummary and useSpendingByCategory,
\* a fetch that starts (the first one or a refresh, from the ready and from the
\* error state alike) sets isLoading and leaves result and error; a fetch that
\* completes clears isLoading and, on success, replaces the cached result by
\* its own and clears error, on failure records the error and leaves the
\* cached result.
C24_FetchCycle ==
  [][\A f \in FetchIds :
       /\ (fetches[f].pc = "idle" /\ fetches'[f].pc # "idle"
           /\ fetches'[f].query \in C24_Queries)
          => LET q == fetches'[f].query IN
             queries'[q] = [queries[q] EXCEPT !.isLoading = TRUE]
       /\ (fetches[f].pc = "settled" /\ fetches'[f].pc = "idle"
           /\ fetches[f].query \in C24_Queries)
          => LET q == fetches[f].query IN
             /\ queries'[q].isLoading = FALSE
             /\ IF fetches[f].err = NoError
                  THEN /\ queries'[q].data = fetches[f].val
                       /\ queries'[q].error = NoError
                  ELSE /\ queries'[q].data = queries[q].data
                       /\ queries'[q].error = fetches[f].err]_vars

\* A refresh from the error state is in flight while the cached result and
\* the error of the failed fetch are still there ...
C24_RefreshedFromError(q) ==
  /\ queries[q].isLoading
  /\ queries[q].error # NoError
  /\ \E f \in FetchIds : fetches[f].query = q /\ fetches[f].pc = "issued"

\* ... on the summary hook, whose store by now holds a row.
C24_Witness ==
  /\ C24_RefreshedFromError("useTransactionSummary")
  /\ transactions # {}

\* A fetch of q is in flight.
C25_InFlight(q) == \E f \in FetchIds : fetches[f].pc # "idle" /\ fetches[f].query = q

\* C25: when every storage call resolves or rejects, a fetch of any of the
\* four bound queries that is in flight is followed by a state in which the
\* query's isLoading is false.
C25_FetchEnds ==
  \A q \in QueryNames : C25_InFlight(q) ~> (queries[q].isLoading = FALSE)

\* The statistics hook after a fetch that succeeded: none in flight, not
\* loading, the statistics of the store in its state.
C25_Witness ==
  /\ queries["useDatabaseStats"].isLoading = FALSE
  /\ queries["useDatabaseStats"].data # NoRow
  /\ ~C25_InFlight("useDatabaseStats")

\* C26: no fetch is cancelled and every completion counts: a successful
\* completion puts its own result in the cache whatever other fetches of the
\* query are in flight or were issued after it, it leaves the other fetches
\* as they are, and nothing but a completion changes the cache; so once all
\* fetches have completed the cache holds the result of the completion
\* delivered last.
C26_LastDeliveredWins ==
  [][\A q \in QueryNames :
       /\ \A f \in FetchIds :
            (fetches[f].pc = "settled" /\ fetches'[f].pc = "idle"
             /\ fetches[f].query = q /\ fetches[f].err = NoError)
            => /\ queries'[q].data = fetches[f].val
               /\ \A g \in FetchIds \ {f} : fetches'[g] = fetches[g]
       /\ queries'[q].data # queries[q].data
            => \E f \in FetchIds :
                 /\ fetches[f].pc = "settled" /\ fetches'[f].pc = "idle"
                 /\ fetches[f].query = q
                 /\ queries'[q].data = fetches[f].val]_vars

\* All fetches of useTransactions have completed, and the cache is not the
\* list the latest read of the store returned: the completion delivered last
\* was that of an earlier read, of a store with fewer rows.
C26_Witness ==
  /\ \A f \in FetchIds : fetches[f].pc = "idle"
  /\ queries["useTransactions"].isLoading = FALSE
  /\ queries["useTransactions"].error = NoError
  /\ last.op = "getTransactions"
  /\ last.err = NoError
  /\ Len(last.val.list) = Cardinality(transactions)
  /\ Len(queries["useTransactions"].data.list) < Len(last.val.list)

\* The cached list of useTransactions.
C27_Cache == queries["useTransactions"].data.list

\* C27: when a mutator of useTransactions returns without an error, the cache
\* after it is: for add, the returned transaction followed by the previous
\* entries in their order; for an update that returned a record, the previous
\* list with that record in the place of each entry of the same id and every
\* other entry as it was; for a remove that returned true, the previous list
\* without the entries of that id; for an update that returned null and a
\* remove that returned false, the previous list. No fetch is started:
\* isLoading and the fetches in flight are as before.
C27_MutatorsPatchCache ==
  [][\A c \in CallIds :
       (calls[c].pc = "settled" /\ calls[c].err = NoError /\ MutatorReturn(c))
       => LET call == calls[c]
              prev == C27_Cache
              next == C27_Cache' IN
          /\ call.op = "add" =>
               /\ Len(next) = Len(prev) + 1
               /\ next[1] = call.val
               /\ \A i \in DOMAIN prev : next[i + 1] = prev[i]
          /\ (call.op = "update" /\ call.val # NoRow) =>
               /\ Len(next) = Len(prev)
               /\ \A i \in DOMAIN prev :
                    next[i] = IF prev[i].id = call.args.id THEN call.val ELSE prev[i]
          /\ (call.op = "remove" /\ call.val = Bool(TRUE)) =>
               next = SelectSeq(prev, LAMBDA t : t.id # call.args.id)
          /\ (call.op = "update" /\ call.val = NoRow) => next = prev
          /\ (call.op = "remove" /\ call.val = Bool(FALSE)) => next = prev
          /\ fetches' = fetches
          /\ queries'["useTransactions"].isLoading = queries["useTransactions"].isLoading
          /\ last'.val = call.val]_vars

\* An update has returned a record of the older of two cached transactions:
\* the record is in the second place, the newer transaction still in the first.
C27_Witness ==
  /\ last.op = "update"
  /\ last.err = NoError
  /\ last.val # NoRow
  /\ Len(C27_Cache) = 2
  /\ C27_Cache[2] = last.val
  /\ C27_Cache[1].id # last.args.id

\* C28 (as the claim states it): when the storage write of an add, update or
\* remove of useTransactions fails, the mutator's caller gets the error, the
\* hook's error state holds it, and the cached list is as before.
C28_ErrorRethrownAndRecorded ==
  [][\A c \in CallIds :
       (calls[c].pc = "settled" /\ calls[c].err # NoError /\ MutatorReturn(c))
       => /\ last'.err = calls[c].err
          /\ queries'["useTransactions"].error = calls[c].err
          /\ C27_Cache' = C27_Cache]_vars

\* C29: an update of useTransactions that returns a record puts in the cache
\* the record it merged from the row it had read and its own fields, whatever
\* the store holds for the id by then. (With two such updates in flight at
\* once the cached record can so differ from the stored row.)
C29_CachesOwnMerge ==
  [][\A c \in CallIds :
       (/\ calls[c].pc = "settled" /\ calls[c].op = "update"
        /\ calls[c].err = NoError /\ calls[c].val # NoRow
        /\ MutatorReturn(c))
       => \A i \in DOMAIN C27_Cache :
            C27_Cache[i].id = calls[c].args.id
              => C27_Cache'[i] = [Spread(calls[c].current, calls[c].args.updates)
                                    EXCEPT !.updatedAt = calls[c].now]]_vars

\* Two updates of one transaction through the hook, in flight at once, have
\* both returned, no call is in flight and no fetch was ever started. The
\* update of the amount returned last: the cache holds its record, with the
\* new amount and the old category, while the store holds the row the update
\* of the category wrote after it, with the old amount and the new category.
C29_Witness ==
  /\ calls = NoCalls
  /\ fetches = NoFetches
  /\ last.op = "update"
  /\ last.err = NoError
  /\ last.args.updates = [amount |-> 3]
  /\ \E i \in DOMAIN C27_Cache : \E r \in transactions :
       /\ C27_Cache[i] = last.val
       /\ r.id = last.args.id
       /\ C27_Cache[i].amount = 3 /\ r.amount = 1
       /\ C27_Cache[i].category = "food" /\ r.category = "travel"

\* Two direct updateTransaction calls on one stored transaction, with no
\* field in common, have both returned a record (in the runs this is checked
\* on, the second was issued before the first returned).
C30_BothReturned ==
  /\ calls[1].pc = "returned" /\ calls[2].pc = "returned"
  /\ calls[1].args.id = calls[2].args.id
  /\ DOMAIN calls[1].args.updates \cap DOMAIN calls[2].args.updates = {}
  /\ calls[1].err = NoError /\ calls[1].val # NoRow
  /\ calls[2].err = NoError /\ calls[2].val # NoRow

\* C30 (as the claim states it): after two such calls the stored row has the
\* new values of both.
C30_BothUpdatesStored ==
  C30_BothReturned
    => \E r \in transactions :
         /\ r.id = calls[1].args.id
         /\ \A c \in {1, 2} : \A k \in DOMAIN calls[c].args.updates :
              r[k] = calls[c].args.updates[k]

\* C31: a summary returned by getTransactionSummary is the summary of one of
\* the states the store was in between the call and its return, whatever
\* addTransaction, updateTransaction and deleteTransaction calls took effect
\* in between.
C31_SummaryOfOneState ==
  \A c \in CallIds :
    (calls[c].op = "getTransactionSummary" /\ calls[c].pc = "returned"
       /\ calls[c].err = NoError)
      => calls[c].val \in calls[c].seen

\* C32: for each of the bound queries, isLoading is true in every state in
\* which a fetch of that query is in flight, also when a refresh started a
\* second fetch before the first had completed.
C32_LoadingWhileInFlight ==
  \A q \in QueryNames : C25_InFlight(q) => queries[q].isLoading

\* C33: under every interleaving of refresh, add, update and remove on one
\* useTransactions instance, no two entries of the cached list have the same
\* identifier.
C33_NoDuplicateIds ==
  LET list == queries["useTransactions"].data.list IN
  \A i, j \in DOMAIN list : list[i].id = list[j].id => i = j

\* The lists a refresh of useTransactions would be given by the store in its
\* state.
C34_Refreshed ==
  {Slice(s, NoOptions) :
     s \in {t \in Listings({r \in transactions : MatchesOptions(r, NoOptions)}) :
              TimestampDescending(t)}}

\* C34: with the cache in sync with the store, one awaited mutator and nothing
\* else, the cached list is a list a refresh would return: the same rows, by
\* timestamp descending. (The cache starts in sync, so the first mutator that
\* leaves it different from every such list started from a cache in sync.)
C34_PatchEqualsRefresh ==
  calls = NoCalls => queries["useTransactions"].data.list \in C34_Refreshed

\* An initDatabase call has opened the store and has not yet returned or
\* failed.
C35_InitInProgress ==
  \E p \in InitCalls : initPc[p] \in DOMAIN InitCreates \cup {"count", "seed"}

\* C35: a storage operation that completes while an initDatabase call is still
\* creating tables or seeding either fails with 'Database not initialized' or
\* runs on the four tables and the seeded settings row.
C35_NoStatementDuringInit ==
  [][(C35_InitInProgress /\ last' # last
        /\ last'.op \notin {"initDatabase", "closeDatabase"})
       => \/ last'.err = NotInitialized
          \/ /\ TableNames \subseteq tables
             /\ \E r \in settings : r.id = SeedSettingsRow.id]_vars

\* C36: on a store that was not closed, no initDatabase call rejects: two
\* calls that overlap on an empty settings table both resolve, whatever the
\* order of their steps.
C36_BothInitsResolve ==
  closed = {} => \A p \in InitCalls : initPc[p] # "failed"

\* C37: when updateTransaction(id, updates) returns a record, the store holds
\* at that moment a row with that identifier and the values of the record,
\* whatever deleteTransaction(id) or clearAllData call took effect while the
\* update was in flight.
C37_ReturnedRowStored ==
  [][\A c \in CallIds :
       (calls[c].pc = "settled" /\ calls'[c].pc = "returned"
          /\ calls[c].op = "update" /\ calls[c].err = NoError /\ calls[c].val # NoRow)
         => \E r \in transactions' :
              /\ r.id = calls[c].args.id
              /\ {r} = UpdateRows({r}, r.id, calls[c].val)]_vars

\* C38: no step of closeDatabase and no step of initDatabase changes a row of
\* the transactions, budgets or subscriptions table, and none changes the
\* settings row once there is one: after a close and a re-initialization the
\* tables hold what they held, the settings row what updateSettings last
\* wrote.
C38_ReopenKeepsData ==
  [][(closeDatabase \/ \E p \in InitCalls : initDatabase(p))
       => /\ transactions' = transactions
          /\ budgets' = budgets
          /\ subscriptions' = subscriptions
          /\ settings # {} => settings' = settings]_vars

\* getSettings, after a close and a completed re-initialization on a new
\* handle, returns the currency updateSettings wrote before the close, and
\* the three tables hold their rows.
C38_Witness ==
  /\ closed # {}
  /\ db # NullDb /\ db \notin closed
  /\ \E p \in InitCalls : initPc[p] = "done" /\ initRet[p] = db
  /\ last.op = "getSettings" /\ last.err = NoError /\ last.val.currency = "EUR"
  /\ transactions # {} /\ budgets # {} /\ subscriptions # {}

====
